---- MODULE Spec2Model ----
(***************************************************************************)
(* HyperStream: bit-packed hypervectors, the fixed-capacity associative    *)
(* memories over them and the HSER1 / v1.1 serialization of the memories.  *)
(*                                                                         *)
(* Representation used throughout: a 64-bit word (std::uint64_t) is the    *)
(* tuple of its 8 bytes, least significant first, exactly as it lies in    *)
(* memory and on the stream on a little-endian host; a 32-bit CRC is the   *)
(* tuple of its 4 bytes; a C++ int is a mathematical integer of the 32-bit *)
(* range, converted to and from its 4 two's-complement bytes at the stream *)
(* boundary.  Arrays keep the source's 0-based indices.                    *)
(***************************************************************************)
EXTENDS Integers, Sequences, FiniteSets, TLC

(***************************************************************************)
(* Bounds of the model.                                                    *)
(***************************************************************************)
\* Dim template argument of the memories under test (bits per hypervector).
MemDim == 3
\* Largest Capacity template argument instantiated (0..MaxCapacity).
MaxCapacity == 2
\* Largest number of mutating calls (Learn/Update/ApplyDecay/Insert/LoadRaw) per run.
MaxOps == 3
\* Largest number of mutating calls made before a memory is saved.
MaxSavedOps == 2

(***************************************************************************)
(* Bytes and 64-bit words.                                                 *)
(***************************************************************************)
\* a ^ b for a, b in 0..15: row a + 1, column b + 1.
NibbleXor ==
  <<<<0, 1, 2, 3, 4, 5, 6, 7, 8, 9, 10, 11, 12, 13, 14, 15>>,
    <<1, 0, 3, 2, 5, 4, 7, 6, 9, 8, 11, 10, 13, 12, 15, 14>>,
    <<2, 3, 0, 1, 6, 7, 4, 5, 10, 11, 8, 9, 14, 15, 12, 13>>,
    <<3, 2, 1, 0, 7, 6, 5, 4, 11, 10, 9, 8, 15, 14, 13, 12>>,
    <<4, 5, 6, 7, 0, 1, 2, 3, 12, 13, 14, 15, 8, 9, 10, 11>>,
    <<5, 4, 7, 6, 1, 0, 3, 2, 13, 12, 15, 14, 9, 8, 11, 10>>,
    <<6, 7, 4, 5, 2, 3, 0, 1, 14, 15, 12, 13, 10, 11, 8, 9>>,
    <<7, 6, 5, 4, 3, 2, 1, 0, 15, 14, 13, 12, 11, 10, 9, 8>>,
    <<8, 9, 10, 11, 12, 13, 14, 15, 0, 1, 2, 3, 4, 5, 6, 7>>,
    <<9, 8, 11, 10, 13, 12, 15, 14, 1, 0, 3, 2, 5, 4, 7, 6>>,
    <<10, 11, 8, 9, 14, 15, 12, 13, 2, 3, 0, 1, 6, 7, 4, 5>>,
    <<11, 10, 9, 8, 15, 14, 13, 12, 3, 2, 1, 0, 7, 6, 5, 4>>,
    <<12, 13, 14, 15, 8, 9, 10, 11, 4, 5, 6, 7, 0, 1, 2, 3>>,
    <<13, 12, 15, 14, 9, 8, 11, 10, 5, 4, 7, 6, 1, 0, 3, 2>>,
    <<14, 15, 12, 13, 10, 11, 8, 9, 6, 7, 4, 5, 2, 3, 0, 1>>,
    <<15, 14, 13, 12, 11, 10, 9, 8, 7, 6, 5, 4, 3, 2, 1, 0>>>>

\* a ^ b on std::uint8_t: the high and the low four bits.
ByteXor(a, b) ==
  16 * NibbleXor[(a \div 16) + 1][(b \div 16) + 1] + NibbleXor[(a % 16) + 1][(b % 16) + 1]

RECURSIVE ByteAnd(_, _)
ByteAnd(a, b) ==
  IF a = 0 \/ b = 0 THEN 0
  ELSE ((a % 2) * (b % 2)) + 2 * ByteAnd(a \div 2, b \div 2)

RECURSIVE ByteOr(_, _)
ByteOr(a, b) ==
  IF a = 0 THEN b
  ELSE IF b = 0 THEN a
  ELSE (IF (a % 2) + (b % 2) > 0 THEN 1 ELSE 0) + 2 * ByteOr(a \div 2, b \div 2)

kWordBits == 64

ZeroWord == <<0, 0, 0, 0, 0, 0, 0, 0>>

\* The uint64_t of a small natural number (n < 2^31).
U64(n) == <<n % 256, (n \div 256) % 256, (n \div 65536) % 256, (n \div 16777216) % 256,
            0, 0, 0, 0>>

\* a > b on uint64_t values (most significant byte decides first).
RECURSIVE U64GtFrom(_, _, _)
U64GtFrom(a, b, i) ==
  IF i = 0 THEN FALSE
  ELSE IF a[i] # b[i] THEN a[i] > b[i]
  ELSE U64GtFrom(a, b, i - 1)

U64Gt(a, b) == U64GtFrom(a, b, 8)

\* static_cast<std::size_t> of a uint64_t known to be small (bytes 5..8 zero, < 2^31).
U64ToNat(w) == w[1] + 256 * w[2] + 65536 * w[3] + 16777216 * w[4]

\* A word built byte by byte: <<F(1), ..., F(8)>>.
WordOfBytes(F(_)) == <<F(1), F(2), F(3), F(4), F(5), F(6), F(7), F(8)>>

WordXor(a, b) == WordOfBytes(LAMBDA i : ByteXor(a[i], b[i]))
WordOr(a, b) == WordOfBytes(LAMBDA i : ByteOr(a[i], b[i]))
WordAnd(a, b) == WordOfBytes(LAMBDA i : ByteAnd(a[i], b[i]))

\* (word >> p) & 1 for p in [0, 64).
WordBit(w, p) == (w[(p \div 8) + 1] \div (2 ^ (p % 8))) % 2

\* The word whose bit p is 1 exactly when P(p), p in [0, 64).
WordOfBits(P(_)) ==
  WordOfBytes(LAMBDA i :
     (IF P(8 * (i - 1)) THEN 1 ELSE 0) + (IF P(8 * (i - 1) + 1) THEN 2 ELSE 0)
   + (IF P(8 * (i - 1) + 2) THEN 4 ELSE 0) + (IF P(8 * (i - 1) + 3) THEN 8 ELSE 0)
   + (IF P(8 * (i - 1) + 4) THEN 16 ELSE 0) + (IF P(8 * (i - 1) + 5) THEN 32 ELSE 0)
   + (IF P(8 * (i - 1) + 6) THEN 64 ELSE 0) + (IF P(8 * (i - 1) + 7) THEN 128 ELSE 0))

\* word << s and word >> s on uint64_t, 0 <= s < 64.
WordShl(w, s) == WordOfBits(LAMBDA p : p >= s /\ WordBit(w, p - s) = 1)
WordShr(w, s) == WordOfBits(LAMBDA p : p + s < 64 /\ WordBit(w, p + s) = 1)

\* ~0ULL >> s.
OnesShr(s) == WordOfBits(LAMBDA p : p + s < 64)

RECURSIVE BytePopcount(_)
BytePopcount(a) == IF a = 0 THEN 0 ELSE (a % 2) + BytePopcount(a \div 2)

(***************************************************************************)
(* core::HyperVector<Dim, bool>: WordCount() words, bit i in word i / 64   *)
(* at offset i % 64.                                                       *)
(***************************************************************************)
WordCount(D) == (D + kWordBits - 1) \div kWordBits

\* Value-initialised / Clear()ed hypervector.
HVClear(D) == [w \in 0..(WordCount(D) - 1) |-> ZeroWord]

GetBit(hv, i) == WordBit(hv[i \div kWordBits], i % kWordBits) = 1

SetBit(hv, i, v) ==
  LET wi == i \div kWordBits
      off == i % kWordBits
      bi == (off \div 8) + 1
      mask == 2 ^ (off % 8)
      old == hv[wi][bi]
      new == IF v THEN (IF (old \div mask) % 2 = 1 THEN old ELSE old + mask)
                  ELSE (IF (old \div mask) % 2 = 1 THEN old - mask ELSE old)
  IN [hv EXCEPT ![wi] = [@ EXCEPT ![bi] = new]]

\* The hypervector whose words hold exactly the bits of the set S.
HVOfBits(D, S) ==
  [w \in 0..(WordCount(D) - 1) |-> WordOfBits(LAMBDA p : (kWordBits * w + p) \in S)]

\* The set of bit indices in [0, 64 * WordCount) that are 1, tail included.
HVBits(D, hv) == {i \in 0..(kWordBits * WordCount(D) - 1) : WordBit(hv[i \div kWordBits], i % kWordBits) = 1}

\* No bit at an index >= D is set.
ZeroTail(D, hv) == \A i \in D..(kWordBits * WordCount(D) - 1) : WordBit(hv[i \div kWordBits], i % kWordBits) = 0

\* for (i = lo; i <= hi; ++i) out->SetBit(index[i], value[i]).  The range is
\* halved, the left half evaluated before the right half starts, only to keep
\* the evaluation shallow.
RECURSIVE SetBitRange(_, _, _, _, _)
SetBitRange(out, index, value, lo, hi) ==
  IF lo > hi THEN out
  ELSE IF lo = hi THEN SetBit(out, index[lo], value[lo])
  ELSE LET left == SetBitRange(out, index, value, lo, (lo + hi) \div 2)
       IN IF left = left THEN SetBitRange(left, index, value, ((lo + hi) \div 2) + 1, hi)
                         ELSE left

(***************************************************************************)
(* std::uint64_t arithmetic: sums and products wrap modulo 2^64.           *)
(***************************************************************************)
\* a + b.
WordAdd(a, b) ==
  LET s1 == a[1] + b[1]
      s2 == a[2] + b[2] + (s1 \div 256)
      s3 == a[3] + b[3] + (s2 \div 256)
      s4 == a[4] + b[4] + (s3 \div 256)
      s5 == a[5] + b[5] + (s4 \div 256)
      s6 == a[6] + b[6] + (s5 \div 256)
      s7 == a[7] + b[7] + (s6 \div 256)
      s8 == a[8] + b[8] + (s7 \div 256)
  IN <<s1 % 256, s2 % 256, s3 % 256, s4 % 256, s5 % 256, s6 % 256, s7 % 256, s8 % 256>>

AllOnes == <<255, 255, 255, 255, 255, 255, 255, 255>>

\* -v on unsigned long long.
WordNeg(v) == WordAdd(WordXor(v, AllOnes), U64(1))

\* a - b on std::size_t.
WordSub(a, b) == WordAdd(a, WordNeg(b))

\* Byte column k of the long product: the sum of a[i] * b[k + 1 - i] for i in i..k.
RECURSIVE MulColumn(_, _, _, _)
MulColumn(a, b, k, i) ==
  IF i > k THEN 0 ELSE a[i] * b[k + 1 - i] + MulColumn(a, b, k, i + 1)

\* a * b.
WordMul(a, b) ==
  LET c1 == MulColumn(a, b, 1, 1)
      c2 == MulColumn(a, b, 2, 1) + (c1 \div 256)
      c3 == MulColumn(a, b, 3, 1) + (c2 \div 256)
      c4 == MulColumn(a, b, 4, 1) + (c3 \div 256)
      c5 == MulColumn(a, b, 5, 1) + (c4 \div 256)
      c6 == MulColumn(a, b, 6, 1) + (c5 \div 256)
      c7 == MulColumn(a, b, 7, 1) + (c6 \div 256)
      c8 == MulColumn(a, b, 8, 1) + (c7 \div 256)
  IN <<c1 % 256, c2 % 256, c3 % 256, c4 % 256, c5 % 256, c6 % 256, c7 % 256, c8 % 256>>

\* a % d for a small d, taking the bytes from the most significant down.
RECURSIVE WordModFrom(_, _, _)
WordModFrom(a, d, i) ==
  IF i > 8 THEN 0 ELSE (WordModFrom(a, d, i + 1) * 256 + a[i]) % d

WordMod(a, d) == WordModFrom(a, d, 1)

(***************************************************************************)
(* core: Bind, BundlePairMajority, PermuteRotate, HammingDistance and      *)
(* BinaryBundler on HyperVector<Dim, bool>.                                *)
(***************************************************************************)
\* Bind with OR in place of XOR.
BindByOr(vector_a, vector_b, D) ==
  [word_index \in 0..(WordCount(D) - 1) |-> WordOr(vector_a[word_index], vector_b[word_index])]

\* void Bind(vector_a, vector_b, out_vector): the words written.
Bind(vector_a, vector_b, D) ==
  [word_index \in 0..(WordCount(D) - 1) |-> WordXor(vector_a[word_index], vector_b[word_index])]

\* void BundlePairMajority(vector_a, vector_b, out_vector): the words written.
BundlePairMajority(vector_a, vector_b, D) ==
  [word_index \in 0..(WordCount(D) - 1) |-> WordOr(vector_a[word_index], vector_b[word_index])]

\* The two rotation loops of PermuteRotate: output_words before the final mask.
RotateWords(input, rotate_by, D) ==
  LET word_count == WordCount(D)
      rotate_words == (rotate_by \div 64) % word_count
      rotate_bits == rotate_by % 64
  IN [i \in 0..(word_count - 1) |->
        IF rotate_bits = 0
          THEN input[(i + word_count - rotate_words) % word_count]
          ELSE WordOr(WordShl(input[(i + word_count - rotate_words) % word_count], rotate_bits),
                      WordShr(input[(i + word_count - rotate_words - 1) % word_count],
                              64 - rotate_bits))]

\* PermuteRotate without the mask of the bits beyond Dim.
PermuteRotateUnmasked(input, rotate_by, D) == RotateWords(input, rotate_by, D)

\* void PermuteRotate(input, rotate_by, output), output distinct from input.
PermuteRotate(input, rotate_by, D) ==
  LET extra_bits == WordCount(D) * 64 - D
      output_words == RotateWords(input, rotate_by, D)
  IN IF extra_bits > 0
       THEN [output_words EXCEPT ![WordCount(D) - 1] = WordAnd(@, OnesShr(extra_bits))]
       ELSE output_words

\* The rotation loops of PermuteRotate when output is the object input refers
\* to: iteration i reads input_words from `words`, which holds what iterations
\* 0..i-1 wrote.
RECURSIVE RotateWordsInPlaceFrom(_, _, _, _)
RotateWordsInPlaceFrom(words, i, rotate_by, D) ==
  LET word_count == WordCount(D)
      rotate_words == (rotate_by \div 64) % word_count
      rotate_bits == rotate_by % 64
      low_index == (i + word_count - rotate_words) % word_count
      high_index == (i + word_count - rotate_words - 1) % word_count
      written == IF rotate_bits = 0
                   THEN words[low_index]
                   ELSE WordOr(WordShl(words[low_index], rotate_bits),
                               WordShr(words[high_index], 64 - rotate_bits))
  IN IF i >= word_count
       THEN words
       ELSE RotateWordsInPlaceFrom([words EXCEPT ![i] = written], i + 1, rotate_by, D)

\* void PermuteRotate(input, rotate_by, &input): the words of input afterwards.
PermuteRotateInPlace(input, rotate_by, D) ==
  LET extra_bits == WordCount(D) * 64 - D
      output_words == RotateWordsInPlaceFrom(input, 0, rotate_by, D)
  IN IF extra_bits > 0
       THEN [output_words EXCEPT ![WordCount(D) - 1] = WordAnd(@, OnesShr(extra_bits))]
       ELSE output_words

\* detail::Popcount64.
Popcount64(w) ==
  BytePopcount(w[1]) + BytePopcount(w[2]) + BytePopcount(w[3]) + BytePopcount(w[4])
  + BytePopcount(w[5]) + BytePopcount(w[6]) + BytePopcount(w[7]) + BytePopcount(w[8])

\* std::size_t HammingDistance(vector_a, vector_b).
RECURSIVE HammingDistanceFrom(_, _, _, _)
HammingDistanceFrom(vector_a, vector_b, word_index, D) ==
  IF word_index >= WordCount(D) THEN 0
  ELSE Popcount64(WordXor(vector_a[word_index], vector_b[word_index]))
       + HammingDistanceFrom(vector_a, vector_b, word_index + 1, D)

\* HammingDistance with the loop started at word 1.
HammingDistanceSkippingWord(vector_a, vector_b, D) == HammingDistanceFrom(vector_a, vector_b, 1, D)

HammingDistance(vector_a, vector_b, D) == HammingDistanceFrom(vector_a, vector_b, 0, D)

\* std::numeric_limits<std::int16_t>::max() and min().
kCounterMax == 32767
kCounterMin == -32768

\* BinaryBundler::Reset(): counters_.
BundlerReset(D) == [i \in 0..(D - 1) |-> 0]

\* Accumulate with int16 counters that wrap around.
BundlerAccumulateWrapping(counters, hypervector, D) ==
  [i \in 0..(D - 1) |->
     IF GetBit(hypervector, i)
       THEN (IF counters[i] # kCounterMax THEN counters[i] + 1 ELSE kCounterMin)
       ELSE (IF counters[i] # kCounterMin THEN counters[i] - 1 ELSE kCounterMax)]

\* Accumulate with counters that saturate at -1 and 1.
BundlerAccumulateNarrow(counters, hypervector, D) ==
  [i \in 0..(D - 1) |->
     IF GetBit(hypervector, i)
       THEN (IF counters[i] < 1 THEN counters[i] + 1 ELSE counters[i])
       ELSE (IF counters[i] > -1 THEN counters[i] - 1 ELSE counters[i])]

\* BinaryBundler::Accumulate(hypervector): counters_ after the call.
BundlerAccumulate(counters, hypervector, D) ==
  [i \in 0..(D - 1) |->
     IF GetBit(hypervector, i)
       THEN (IF counters[i] # kCounterMax THEN counters[i] + 1 ELSE counters[i])
       ELSE (IF counters[i] # kCounterMin THEN counters[i] - 1 ELSE counters[i])]

\* BinaryBundler::Finalize(out): *out after the call.
BundlerFinalize(counters, out, D) ==
  SetBitRange(out, [i \in 0..(D - 1) |-> i], [i \in 0..(D - 1) |-> counters[i] >= 0], 0, D - 1)

(***************************************************************************)
(* encoding: the SplitMix64 / FNV-1a generators, ItemMemory, HashEncoder   *)
(* and ThermometerEncoder.  encoding::detail and detail_itemmemory hold    *)
(* the same constants and the same SplitMix64Step, MixSymbol and Fnv1a64.  *)
(***************************************************************************)
kGoldenGamma == <<21, 124, 74, 127, 185, 121, 55, 158>>
kSplitMixMul1 == <<185, 229, 228, 28, 109, 71, 88, 191>>
kSplitMixMul2 == <<235, 17, 49, 19, 187, 73, 208, 148>>
kSplitMixShift1 == 30
kSplitMixShift2 == 27
kSplitMixShift3 == 31
kHalfWordBits == 32
kFnvOffsetBasis64 == <<131, 3, 157, 115, 176, 15, 101, 20>>
kFnvPrime64 == <<179, 1, 0, 0, 0, 1, 0, 0>>
kTokenSalt == <<77, 165, 183, 240, 53, 54, 240, 91>>
kHashEncoderDefaultSeed == <<185, 199, 165, 243, 1, 39, 237, 81>>
kSequentialNGramDefaultSeed == <<197, 103, 86, 22, 47, 235, 212, 39>>

\* std::uint64_t SplitMix64Step(state): the new state and the value returned.
SplitMix64Step(state) ==
  LET advanced == WordAdd(state, kGoldenGamma)
      mixed1 == WordMul(WordXor(advanced, WordShr(advanced, kSplitMixShift1)), kSplitMixMul1)
      mixed2 == WordMul(WordXor(mixed1, WordShr(mixed1, kSplitMixShift2)), kSplitMixMul2)
  IN [state |-> advanced, value |-> WordXor(mixed2, WordShr(mixed2, kSplitMixShift3))]

\* std::uint64_t MixSymbol(seed_value, symbol_value).
MixSymbol(seed_value, symbol_value) ==
  LET state == WordAdd(seed_value, WordMul(symbol_value, kSplitMixMul2))
      swapped == WordOr(WordShl(symbol_value, kHalfWordBits), WordShr(symbol_value, kHalfWordBits))
  IN WordMul(WordXor(state, swapped), kSplitMixMul1)

\* for (word_index ...) words[word_index] = SplitMix64Step(state).
RECURSIVE FillWords(_, _, _, _)
FillWords(words, state, word_index, D) ==
  IF word_index >= WordCount(D) THEN words
  ELSE LET step == SplitMix64Step(state)
       IN FillWords([words EXCEPT ![word_index] = step.value], step.state, word_index + 1, D)

\* words.back() &= (~0ULL) >> excess_bits when excess_bits > 0.
MaskTail(words, D) ==
  LET excess_bits == WordCount(D) * kWordBits - D
  IN IF excess_bits > 0
       THEN [words EXCEPT ![WordCount(D) - 1] = WordAnd(@, OnesShr(excess_bits))]
       ELSE words

\* void GenerateRandomHypervector({seed_value, symbol_value}, out): *out afterwards.
GenerateRandomHypervector(seed_value, symbol_value, out, D) ==
  MaskTail(FillWords(out, MixSymbol(seed_value, symbol_value), 0, D), D)

\* void ItemMemory::EncodeId(identifier, out): *out afterwards (seed_ is the member).
EncodeId(seed_, identifier, D) ==
  MaskTail(FillWords(HVClear(D), MixSymbol(seed_, identifier), 0, D), D)

\* std::uint64_t Fnv1a64(token, seed_value): token is the sequence of its chars.
RECURSIVE Fnv1a64From(_, _, _)
Fnv1a64From(hash, token, k) ==
  IF k > Len(token) THEN hash
  ELSE Fnv1a64From(WordMul(WordXor(hash, U64(token[k])), kFnvPrime64), token, k + 1)

Fnv1a64(token, seed_value) == Fnv1a64From(WordXor(kFnvOffsetBasis64, seed_value), token, 1)

\* void ItemMemory::EncodeToken(token, out).
EncodeToken(seed_, token, D) ==
  EncodeId(seed_, Fnv1a64(token, WordXor(seed_, kTokenSalt)), D)

\* std::pair DoubleHash({token, seed_value}).
DoubleHash(token, seed_value) ==
  <<Fnv1a64(token, seed_value),
    WordOr(WordShl(Fnv1a64(token, WordXor(seed_value, kTokenSalt)), 1), U64(1))>>

\* The hash loop of HashEncoder::EncodeToken from hash_index on.
RECURSIVE HashBits(_, _, _, _, _, _)
HashBits(out, hash1, hash2, hash_index, k_, D) ==
  IF hash_index >= k_ THEN out
  ELSE HashBits(SetBit(out, WordMod(WordAdd(hash1, WordMul(U64(hash_index), hash2)), D), TRUE),
                hash1, hash2, hash_index + 1, k_, D)

\* void HashEncoder::EncodeToken({token, role_index}, out): k_ and seed_ are members.
HashEncoderEncodeToken(k_, seed_, token, role_index, D) ==
  LET hashes == DoubleHash(token, seed_)
      hashed == HashBits(HVClear(D), hashes[1], hashes[2], 0, k_, D)
  IN IF role_index # 0 THEN PermuteRotate(hashed, role_index, D) ELSE hashed

\* The bit-reversal loop of BuildOrder for one index.
RECURSIVE ReverseBits(_, _, _, _)
ReverseBits(reversed_bits_value, remaining_bits, bit_index, D) ==
  IF 2 ^ bit_index > D * 2 THEN reversed_bits_value
  ELSE ReverseBits(reversed_bits_value * 2 + (remaining_bits % 2), remaining_bits \div 2,
                   bit_index + 1, D)

\* The highest index of lo..hi that is not used, or -1.
HighestUnused(used, lo, hi) ==
  IF (lo..hi) \ used = {} THEN -1
  ELSE CHOOSE i \in (lo..hi) \ used : \A j \in (lo..hi) \ used : j <= i

\* mapped_index = 0; while (used[mapped_index]) mapped_index++: the first index
\* of lo..hi that is not used, or -1 when all of them are (the range is halved
\* only to keep the evaluation shallow).
RECURSIVE FirstUnused(_, _, _)
FirstUnused(used, lo, hi) ==
  IF lo > hi THEN -1
  ELSE IF lo = hi THEN (IF lo \in used THEN -1 ELSE lo)
  ELSE LET left == FirstUnused(used, lo, (lo + hi) \div 2)
       IN IF left >= 0 THEN left ELSE FirstUnused(used, ((lo + hi) \div 2) + 1, hi)

\* One pass of the second loop of BuildOrder; st is [order, used].
OrderStep(st, index, D) ==
  LET mapped_index == IF st.order[index] >= D \/ st.order[index] \in st.used
                        THEN FirstUnused(st.used, 0, D - 1)
                        ELSE st.order[index]
  IN [order |-> [st.order EXCEPT ![index] = mapped_index], used |-> st.used \cup {mapped_index}]

\* The second loop of BuildOrder over index in lo..hi, in order (halved as above).
RECURSIVE OrderRange(_, _, _, _)
OrderRange(st, lo, hi, D) ==
  IF lo > hi THEN st
  ELSE IF lo = hi THEN OrderStep(st, lo, D)
  ELSE LET left == OrderRange(st, lo, (lo + hi) \div 2, D)
       IN IF left = left THEN OrderRange(left, ((lo + hi) \div 2) + 1, hi, D) ELSE left

\* std::array<std::size_t, Dim> detail_numeric::BuildOrder<Dim>().
BuildOrder(D) ==
  OrderRange([order |-> [index \in 0..(D - 1) |-> ReverseBits(0, index, 0, D) % D], used |-> {}],
             0, D - 1, D).order

\* A double argument: a NaN, or the integer v (exactly representable).
Double(v) == [nan |-> FALSE, v |-> v]
NaN == [nan |-> TRUE, v |-> 0]

\* void ThermometerEncoder::Encode(value, out) for integer min_ and max_ with
\* max_ - min_ a power of two, so that the division and the product are exact.
\* static_cast<std::size_t> of a NaN is undefined: nan_bits is the value it gives.
ThermometerEncode(min_, max_, value, nan_bits, D) ==
  IF ~(max_ > min_) THEN HVClear(D)
  ELSE LET clamped == IF value.v - min_ < 0 THEN 0
                      ELSE IF value.v - min_ > max_ - min_ THEN max_ - min_
                      ELSE value.v - min_
           num_active_bits == IF value.nan THEN nan_bits ELSE (clamped * D) \div (max_ - min_)
       IN SetBitRange(HVClear(D), BuildOrder(D), [bit_index \in 0..(D - 1) |-> TRUE],
                      0, (IF num_active_bits < D THEN num_active_bits ELSE D) - 1)

(***************************************************************************)
(* memory::PrototypeMemory<Dim, Capacity>.                                 *)
(***************************************************************************)
DefaultEntry(D) == [label |-> ZeroWord, hv |-> HVClear(D)]

\* PrototypeMemory(): entries_ value-initialised, size_ = 0.
PrototypeMemoryInit(D, C) ==
  [entries |-> [i \in 0..(C - 1) |-> DefaultEntry(D)], size |-> 0]

\* Learn with the capacity test off by one (size_ > Capacity).
LearnOffByOne(m, C, label, hypervector) ==
  IF m.size > C
    THEN [mem |-> m, ret |-> FALSE]
    ELSE [mem |-> [entries |-> [m.entries EXCEPT ![m.size] = [label |-> label, hv |-> hypervector]],
                   size |-> m.size + 1],
          ret |-> TRUE]

\* bool Learn(label, hypervector): the memory after the call and the value returned.
Learn(m, C, label, hypervector) ==
  IF m.size >= C
    THEN [mem |-> m, ret |-> FALSE]
    ELSE [mem |-> [entries |-> [m.entries EXCEPT ![m.size] = [label |-> label, hv |-> hypervector]],
                   size |-> m.size + 1],
          ret |-> TRUE]

(***************************************************************************)
(* memory::ClusterMemory<Dim, Capacity>.                                   *)
(***************************************************************************)
\* ClusterMemory(): labels_, counts_, sums_ value-initialised, size_ = 0.
ClusterMemoryInit(D, C) ==
  [labels |-> [i \in 0..(C - 1) |-> ZeroWord],
   counts |-> [i \in 0..(C - 1) |-> 0],
   sums |-> [j \in 0..(C * D - 1) |-> 0],
   size |-> 0]

\* int FindIndex(label): lowest i < size_ with labels_[i] == label, else -1.
FindIndex(m, label) ==
  LET hits == {i \in 0..(m.size - 1) : m.labels[i] = label}
  IN IF hits = {} THEN -1 ELSE CHOOSE i \in hits : \A j \in hits : i <= j

\* The counter loop and ++counts_[index] of Update on row index.
\* UpdateRow adding the hypervector to the sums of every row.
UpdateEveryRow(m, D, index, hypervector) ==
  [m EXCEPT !.sums = [j \in DOMAIN m.sums |->
                        m.sums[j] + (IF GetBit(hypervector, j % D) THEN 1 ELSE -1)],
            !.counts = [@ EXCEPT ![index] = @ + 1]]

UpdateRow(m, D, index, hypervector) ==
  [m EXCEPT !.sums = [j \in DOMAIN m.sums |->
                        IF j \div D = index
                          THEN m.sums[j] + (IF GetBit(hypervector, j % D) THEN 1 ELSE -1)
                          ELSE m.sums[j]],
            !.counts = [@ EXCEPT ![index] = @ + 1]]

\* Update with the capacity test made before the label is looked up.
UpdateCapacityFirst(m, D, C, label, hypervector) ==
  IF m.size >= C
    THEN [mem |-> m, ret |-> FALSE]
    ELSE LET found == FindIndex(m, label)
             index == IF found < 0 THEN m.size ELSE found
         IN [mem |-> UpdateRow(IF found < 0
                                 THEN [m EXCEPT !.labels = [@ EXCEPT ![m.size] = label],
                                                !.counts = [@ EXCEPT ![m.size] = 0],
                                                !.size = m.size + 1]
                                 ELSE m,
                               D, index, hypervector),
             ret |-> TRUE]

\* bool Update(label, hypervector).
Update(m, D, C, label, hypervector) ==
  LET found == FindIndex(m, label)
  IN IF found < 0
       THEN IF m.size >= C
              THEN [mem |-> m, ret |-> FALSE]
              ELSE [mem |-> UpdateRow([m EXCEPT !.labels = [@ EXCEPT ![m.size] = label],
                                                !.counts = [@ EXCEPT ![m.size] = 0],
                                                !.size = m.size + 1],
                                      D, m.size, hypervector),
                    ret |-> TRUE]
       ELSE [mem |-> UpdateRow(m, D, found, hypervector), ret |-> TRUE]

\* The spacing of the floats around the magnitude a: 1 below 2^24, doubling with
\* every binade above.
RECURSIVE FloatUlp(_)
FloatUlp(a) == IF a < 16777216 THEN 1 ELSE 2 * FloatUlp(a \div 2)

\* static_cast<float>(v) for an int v: v rounded to 24 significant bits, ties to
\* even.  For |v| < 2^31 - 64, whose float is below 2^31.
FloatOfInt(v) ==
  LET a == IF v >= 0 THEN v ELSE -v
      u == FloatUlp(a)
      q == a \div u
      r == a % u
      up == 2 * r > u \/ (2 * r = u /\ q % 2 = 1)
      f == (IF up THEN q + 1 ELSE q) * u
  IN IF v >= 0 THEN f ELSE -f

\* static_cast<int>(static_cast<float>(v) * f) for f = num / den in {0, 1/2, 1},
\* where the float product is exact: the float of v times f, truncated toward
\* zero.
DecayValue(v, num, den) ==
  LET p == FloatOfInt(v) * num
  IN IF p >= 0 THEN p \div den ELSE -((-p) \div den)

\* void ApplyDecay(decay_factor), decay_factor = num / den with den > 0.
ApplyDecay(m, D, num, den) ==
  IF num < 0 \/ num > den
    THEN m
    ELSE [m EXCEPT !.sums = [j \in DOMAIN m.sums |->
                               IF j \div D < m.size THEN DecayValue(m.sums[j], num, den)
                                                    ELSE m.sums[j]],
                   !.counts = [i \in DOMAIN m.counts |->
                                 IF i < m.size THEN DecayValue(m.counts[i], num, den)
                                               ELSE m.counts[i]]]

\* Finalize without out->Clear().
ClusterFinalizeKeepingOut(m, D, label, out) ==
  LET index == FindIndex(m, label)
  IN IF index < 0 THEN out
     ELSE SetBitRange(out, [bit \in 0..(D - 1) |-> bit],
                      [bit \in 0..(D - 1) |-> m.sums[index * D + bit] >= 0], 0, D - 1)

\* void Finalize(label, out): *out after the call.
ClusterFinalize(m, D, label, out) ==
  LET index == FindIndex(m, label)
  IN IF index < 0 THEN HVClear(D)
     ELSE SetBitRange(HVClear(D), [bit \in 0..(D - 1) |-> bit],
                      [bit \in 0..(D - 1) |-> m.sums[index * D + bit] >= 0], 0, D - 1)

\* A pointer argument: null, or the 0-based array it points at.
NullPtr == [null |-> TRUE, at |-> <<>>]
Ptr(a) == [null |-> FALSE, at |-> a]

\* LoadRaw without the test that the memory is empty.
LoadRawIntoNonEmpty(m, D, C, args) ==
  IF args.labels.null \/ args.label_counts.null \/ args.bit_sums.null \/ args.num_items > C
    THEN [mem |-> m, ret |-> FALSE]
    ELSE [mem |-> [labels |-> [i \in DOMAIN m.labels |->
                                 IF i < args.num_items THEN args.labels.at[i] ELSE m.labels[i]],
                   counts |-> [i \in DOMAIN m.counts |->
                                 IF i < args.num_items THEN args.label_counts.at[i]
                                                       ELSE m.counts[i]],
                   sums |-> [j \in DOMAIN m.sums |->
                               IF j \div D < args.num_items THEN args.bit_sums.at[j]
                                                            ELSE m.sums[j]],
                   size |-> args.num_items],
          ret |-> TRUE]

\* bool LoadRaw(args): args.labels, args.label_counts, args.bit_sums are pointers.
LoadRaw(m, D, C, args) ==
  IF m.size # 0 \/ args.labels.null \/ args.label_counts.null \/ args.bit_sums.null
    THEN [mem |-> m, ret |-> FALSE]
  ELSE IF args.num_items > C
    THEN [mem |-> m, ret |-> FALSE]
  ELSE [mem |-> [labels |-> [i \in DOMAIN m.labels |->
                               IF i < args.num_items THEN args.labels.at[i] ELSE m.labels[i]],
                 counts |-> [i \in DOMAIN m.counts |->
                               IF i < args.num_items THEN args.label_counts.at[i] ELSE m.counts[i]],
                 sums |-> [j \in DOMAIN m.sums |->
                             IF j \div D < args.num_items THEN args.bit_sums.at[j] ELSE m.sums[j]],
                 size |-> args.num_items],
        ret |-> TRUE]

(***************************************************************************)
(* memory::CleanupMemory<Dim, Capacity>.                                   *)
(***************************************************************************)
CleanupMemoryInit(D, C) ==
  [entries |-> [i \in 0..(C - 1) |-> HVClear(D)], size |-> 0]

\* bool Insert(hypervector).
Insert(m, C, hypervector) ==
  IF m.size >= C
    THEN [mem |-> m, ret |-> FALSE]
    ELSE [mem |-> [entries |-> [m.entries EXCEPT ![m.size] = hypervector], size |-> m.size + 1],
          ret |-> TRUE]

\* The loop of Classify and of Restore over the stored hypervectors: the index
\* kept in best_index.  match is Dim - dist on std::size_t.
RECURSIVE BestMatchLoop(_, _, _, _, _, _, _)
BestMatchLoop(hvs, size, query, D, i, best_index, best_match) ==
  IF i >= size THEN best_index
  ELSE LET dist == HammingDistance(query, hvs[i], D)
           match == WordSub(U64(D), U64(dist))
       IN IF U64Gt(match, best_match)
            THEN BestMatchLoop(hvs, size, query, D, i + 1, i, match)
            ELSE BestMatchLoop(hvs, size, query, D, i + 1, best_index, best_match)

\* std::uint64_t PrototypeMemory::Classify(query, default_label).
Classify(m, D, query, default_label) ==
  IF m.size = 0 THEN default_label
  ELSE m.entries[BestMatchLoop([i \in DOMAIN m.entries |-> m.entries[i].hv], m.size, query, D,
                               0, 0, ZeroWord)].label

\* HyperVector CleanupMemory::Restore({noisy, fallback}).
Restore(m, D, noisy, fallback) ==
  IF m.size = 0 THEN fallback
  ELSE m.entries[BestMatchLoop(m.entries, m.size, noisy, D, 0, 0, ZeroWord)]

(***************************************************************************)
(* io::detail_ser: streams and CRC-32.                                     *)
(*                                                                         *)
(* A stream is [bytes, pos, seekable, fail]: its content, the read         *)
(* position, whether tellg()/seekg() work, and failbit.                    *)
(***************************************************************************)
\* 0xEDB88320 and 0xFFFFFFFF as bytes, least significant first.
kCrcPoly == <<32, 131, 184, 237>>
kCrcInit == <<255, 255, 255, 255>>
kBitsPerByte == 8

CrcXor(a, b) == <<ByteXor(a[1], b[1]), ByteXor(a[2], b[2]), ByteXor(a[3], b[3]), ByteXor(a[4], b[4])>>

\* crc_value >> 1 on std::uint32_t.
CrcShr1(c) ==
  <<(c[1] \div 2) + (c[2] % 2) * 128, (c[2] \div 2) + (c[3] % 2) * 128,
    (c[3] \div 2) + (c[4] % 2) * 128, c[4] \div 2>>

\* One pass of the inner bit loop.
CrcBitStep(c) == IF c[1] % 2 = 1 THEN CrcXor(CrcShr1(c), kCrcPoly) ELSE CrcShr1(c)

RECURSIVE CrcBitLoop(_, _)
CrcBitLoop(c, bit_index) ==
  IF bit_index >= kBitsPerByte THEN c ELSE CrcBitLoop(CrcBitStep(c), bit_index + 1)

\* void Crc32Update(crc, buffer, byte_count): the value of *crc after the call.
\* The byte loop over bytes[lo..hi], in order.  The range is halved, and the
\* left half is evaluated before the right half starts, only to keep the
\* evaluation shallow.
RECURSIVE Crc32UpdateRange(_, _, _, _)
Crc32UpdateRange(crc, bytes, lo, hi) ==
  IF lo > hi THEN crc
  ELSE IF lo = hi THEN CrcBitLoop([crc EXCEPT ![1] = ByteXor(@, bytes[lo])], 0)
  ELSE LET crc_value == Crc32UpdateRange(crc, bytes, lo, (lo + hi) \div 2)
       IN IF crc_value = crc_value
          THEN Crc32UpdateRange(crc_value, bytes, ((lo + hi) \div 2) + 1, hi)
          ELSE crc_value

\* Crc32Update that stops one byte short of byte_count.
Crc32UpdateShort(crc, bytes) ==
  IF crc = crc THEN Crc32UpdateRange(crc, bytes, 1, Len(bytes) - 1) ELSE crc

Crc32Update(crc, bytes) ==
  IF crc = crc THEN Crc32UpdateRange(crc, bytes, 1, Len(bytes)) ELSE crc

\* bool Read(stream, buffer, n): the bytes read, the stream afterwards, and whether
\* the stream is still good.  A short read extracts what is left and sets failbit.
Read(s, n) ==
  IF s.pos + n <= Len(s.bytes)
    THEN [ok |-> TRUE, data |-> SubSeq(s.bytes, s.pos + 1, s.pos + n),
          s |-> [s EXCEPT !.pos = s.pos + n]]
    ELSE [ok |-> FALSE, data |-> SubSeq(s.bytes, s.pos + 1, Len(s.bytes)),
          s |-> [s EXCEPT !.pos = Len(s.bytes), !.fail = TRUE]]

\* input_stream.clear(); input_stream.seekg(pos).
Rewind(s, pos) == [s EXCEPT !.pos = pos, !.fail = FALSE]

kTrailerTag == <<72, 83, 88, 49>>
kMagic == <<72, 83, 69, 82, 49>>

\* bool WriteTrailer(stream, crc): the bytes appended.
WriteTrailer(crc) == kTrailerTag \o crc

\* bool TryReadTrailer(stream, out_crc).
TryReadTrailer(s) ==
  IF ~s.seekable
    THEN [found |-> FALSE, crc |-> <<0, 0, 0, 0>>, s |-> s]
    ELSE LET tag == Read(s, 4)
         IN IF ~tag.ok \/ tag.data # kTrailerTag
              THEN [found |-> FALSE, crc |-> <<0, 0, 0, 0>>, s |-> Rewind(tag.s, s.pos)]
              ELSE LET crc == Read(tag.s, 4)
                   IN IF ~crc.ok
                        THEN [found |-> FALSE, crc |-> <<0, 0, 0, 0>>, s |-> Rewind(crc.s, s.pos)]
                        ELSE [found |-> TRUE, crc |-> crc.data, s |-> crc.s]

(***************************************************************************)
(* io: HSER1 header.  struct Header is 32 bytes: magic[5], kind, two       *)
(* padding bytes (value-initialised to zero by Header{}), dim, capacity,   *)
(* size.                                                                   *)
(***************************************************************************)
KindPrototype == 1
KindCluster == 2
kHeaderSize == 32

\* MakeHeader(inputs) as the sizeof(Header) bytes written by Write(&h, sizeof(h)).
MakeHeader(kind, dim_bits, capacity, num_items) ==
  kMagic \o <<kind>> \o <<0, 0>> \o U64(dim_bits) \o U64(capacity) \o U64(num_items)

\* The Header object filled by Read(&h, sizeof(h)).
ParseHeader(b) ==
  [magic |-> SubSeq(b, 1, 5), kind |-> b[6],
   dim |-> SubSeq(b, 9, 16), capacity |-> SubSeq(b, 17, 24), size |-> SubSeq(b, 25, 32)]

CheckMagic(h) == h.magic = kMagic

\* An int as its 4 bytes in memory, and back.
I32ToBytes(v) ==
  LET lo == IF v >= 0 THEN v ELSE (v + 2147483647) + 1
  IN <<lo % 256, (lo \div 256) % 256, (lo \div 65536) % 256,
       (lo \div 16777216) + (IF v < 0 THEN 128 ELSE 0)>>

BytesToI32(b) ==
  IF b[4] >= 128
    THEN ((b[1] + 256 * b[2] + 65536 * b[3] + 16777216 * (b[4] - 128)) - 2147483647) - 1
    ELSE b[1] + 256 * b[2] + 65536 * b[3] + 16777216 * b[4]

\* The bytes of words[0..n) / of an int array a[0..n), in memory order.
RECURSIVE WordsBytes(_, _)
WordsBytes(a, n) == IF n = 0 THEN <<>> ELSE WordsBytes(a, n - 1) \o a[n - 1]

RECURSIVE IntsBytes(_, _)
IntsBytes(a, n) == IF n = 0 THEN <<>> ELSE IntsBytes(a, n - 1) \o I32ToBytes(a[n - 1])

\* The array of n words / ints stored in the bytes b.
BytesWords(b, n) == [i \in 0..(n - 1) |-> SubSeq(b, 8 * i + 1, 8 * i + 8)]
BytesInts(b, n) == [i \in 0..(n - 1) |-> BytesToI32(SubSeq(b, 4 * i + 1, 4 * i + 4))]

(***************************************************************************)
(* io::SavePrototype / LoadPrototype.                                      *)
(***************************************************************************)
\* The body bytes of entries [0, n): label, then the words of the hypervector.
RECURSIVE PrototypeBody(_, _, _)
PrototypeBody(m, D, n) ==
  IF n = 0 THEN <<>>
  ELSE PrototypeBody(m, D, n - 1) \o m.entries[n - 1].label
       \o WordsBytes(m.entries[n - 1].hv, WordCount(D))

\* The running CRC after entries [0, n): updated with the label, then with the
\* words, of each entry in turn.
RECURSIVE PrototypeCrc(_, _, _)
PrototypeCrc(m, D, n) ==
  IF n = 0 THEN kCrcInit
  ELSE Crc32Update(Crc32Update(PrototypeCrc(m, D, n - 1), m.entries[n - 1].label),
                   WordsBytes(m.entries[n - 1].hv, WordCount(D)))

\* bool SavePrototype(stream, mem) on a stream that accepts every write: the bytes
\* written.  write_v1 is the compile-time switch HYPERSTREAM_HSER1_WRITE_V1.
SavePrototype(m, D, C, write_v1) ==
  LET body == PrototypeBody(m, D, m.size)
      crc == CrcXor(PrototypeCrc(m, D, m.size), kCrcInit)
  IN MakeHeader(KindPrototype, D, C, m.size) \o body
     \o (IF write_v1 THEN <<>> ELSE WriteTrailer(crc))

\* The entry loop of LoadPrototype from index i.
RECURSIVE LoadPrototypeLoop(_, _, _, _, _, _, _)
LoadPrototypeLoop(i, n, s, m, crc_calc, D, C) ==
  IF i >= n THEN [ok |-> TRUE, mem |-> m, s |-> s, crc |-> crc_calc]
  ELSE
    LET label == Read(s, 8)
    IN IF ~label.ok THEN [ok |-> FALSE, mem |-> m, s |-> label.s, crc |-> crc_calc]
       ELSE
         LET words == Read(label.s, 8 * WordCount(D))
         IN IF ~words.ok THEN [ok |-> FALSE, mem |-> m, s |-> words.s, crc |-> crc_calc]
            ELSE
              LET crc2 == Crc32Update(Crc32Update(crc_calc, label.data), words.data)
                  learned == Learn(m, C, label.data, BytesWords(words.data, WordCount(D)))
              IN IF ~learned.ret
                   THEN [ok |-> FALSE, mem |-> learned.mem, s |-> words.s, crc |-> crc2]
                   ELSE LoadPrototypeLoop(i + 1, n, words.s, learned.mem, crc2, D, C)

\* The trailer check shared by both loaders: TRUE unless a trailer is found
\* whose CRC differs from the computed one.
TrailerCheck(s, crc_calc) ==
  LET t == TryReadTrailer(s)
  IN [ret |-> ~(t.found /\ CrcXor(crc_calc, kCrcInit) # t.crc), s |-> t.s]

\* bool LoadPrototype(stream, mem): mem_null is (mem == nullptr).
LoadPrototype(s, m, D, C, mem_null) ==
  IF mem_null THEN [ret |-> FALSE, mem |-> m, s |-> s]
  ELSE IF m.size # 0 THEN [ret |-> FALSE, mem |-> m, s |-> s]
  ELSE
    LET hdr == Read(s, kHeaderSize)
    IN IF ~hdr.ok THEN [ret |-> FALSE, mem |-> m, s |-> hdr.s]
       ELSE
         LET h == ParseHeader(hdr.data)
         IN IF ~CheckMagic(h) \/ h.kind # KindPrototype
              THEN [ret |-> FALSE, mem |-> m, s |-> hdr.s]
            ELSE IF h.dim # U64(D) \/ h.capacity # U64(C)
              THEN [ret |-> FALSE, mem |-> m, s |-> hdr.s]
            ELSE IF U64Gt(h.size, U64(C))
              THEN [ret |-> FALSE, mem |-> m, s |-> hdr.s]
            ELSE
              LET body == LoadPrototypeLoop(0, U64ToNat(h.size), hdr.s, m, kCrcInit, D, C)
              IN IF ~body.ok THEN [ret |-> FALSE, mem |-> body.mem, s |-> body.s]
                 ELSE LET t == TrailerCheck(body.s, body.crc)
                      IN [ret |-> t.ret, mem |-> body.mem, s |-> t.s]

(***************************************************************************)
(* io::SaveCluster / LoadCluster.                                          *)
(***************************************************************************)
ClusterBody(m, D) ==
  WordsBytes(m.labels, m.size) \o IntsBytes(m.counts, m.size) \o IntsBytes(m.sums, m.size * D)

\* bool SaveCluster(stream, mem) on a stream that accepts every write.
SaveCluster(m, D, C, write_v1) ==
  LET body == ClusterBody(m, D)
      crc_value ==
        IF m.size = 0 THEN kCrcInit
        ELSE Crc32Update(Crc32Update(Crc32Update(kCrcInit, WordsBytes(m.labels, m.size)),
                                     IntsBytes(m.counts, m.size)),
                         IntsBytes(m.sums, m.size * D))
      crc == CrcXor(crc_value, kCrcInit)
  IN MakeHeader(KindCluster, D, C, m.size) \o body
     \o (IF write_v1 THEN <<>> ELSE WriteTrailer(crc))

\* bool LoadCluster(stream, mem).  empty_data_null: whether data() of an empty
\* std::vector is the null pointer (unspecified; it is with the usual libraries).
LoadCluster(s, m, D, C, mem_null, empty_data_null) ==
  IF mem_null THEN [ret |-> FALSE, mem |-> m, s |-> s]
  ELSE IF m.size # 0 THEN [ret |-> FALSE, mem |-> m, s |-> s]
  ELSE
    LET hdr == Read(s, kHeaderSize)
    IN IF ~hdr.ok THEN [ret |-> FALSE, mem |-> m, s |-> hdr.s]
       ELSE
         LET h == ParseHeader(hdr.data)
         IN IF ~CheckMagic(h) \/ h.kind # KindCluster
              THEN [ret |-> FALSE, mem |-> m, s |-> hdr.s]
            ELSE IF h.dim # U64(D) \/ h.capacity # U64(C)
              THEN [ret |-> FALSE, mem |-> m, s |-> hdr.s]
            ELSE IF U64Gt(h.size, U64(C))
              THEN [ret |-> FALSE, mem |-> m, s |-> hdr.s]
            ELSE
              LET n == U64ToNat(h.size)
                  labels == Read(hdr.s, 8 * n)
                  counts == Read(labels.s, 4 * n)
                  sums == Read(counts.s, 4 * n * D)
              IN IF n > 0 /\ ~labels.ok THEN [ret |-> FALSE, mem |-> m, s |-> labels.s]
                 ELSE IF n > 0 /\ ~counts.ok THEN [ret |-> FALSE, mem |-> m, s |-> counts.s]
                 ELSE IF n > 0 /\ ~sums.ok THEN [ret |-> FALSE, mem |-> m, s |-> sums.s]
                 ELSE
                   LET after == IF n > 0 THEN sums.s ELSE hdr.s
                       crc_calc == IF n > 0
                                     THEN Crc32Update(Crc32Update(Crc32Update(kCrcInit,
                                            labels.data), counts.data), sums.data)
                                     ELSE kCrcInit
                       args == IF n = 0 /\ empty_data_null
                                 THEN [labels |-> NullPtr, label_counts |-> NullPtr,
                                       bit_sums |-> NullPtr, num_items |-> n]
                                 ELSE [labels |-> Ptr(BytesWords(labels.data, n)),
                                       label_counts |-> Ptr(BytesInts(counts.data, n)),
                                       bit_sums |-> Ptr(BytesInts(sums.data, n * D)),
                                       num_items |-> n]
                       raw == LoadRaw(m, D, C, args)
                   IN IF ~raw.ret THEN [ret |-> FALSE, mem |-> raw.mem, s |-> after]
                      ELSE LET t == TrailerCheck(after, crc_calc)
                           IN [ret |-> t.ret, mem |-> raw.mem, s |-> t.s]

(***************************************************************************)
(* State.                                                                  *)
(*   kind      which class template the run instantiates                   *)
(*   Capacity  its Capacity template argument                              *)
(*   mem       the memory object the caller builds up and saves            *)
(*   dst       a second, freshly constructed memory of the same type       *)
(*   stream    the bytes written by the last Save                          *)
(*   pc        "build" until Save, "saved" until Load, then "loaded";      *)
(*             "ops" until a hypervector operation is applied, then "done",*)
(*             "done2" once an operation was applied to its output         *)
(*   nops      number of mutating calls made on mem since it was built or  *)
(*             saved                                                       *)
(*   last      the last call: its name, arguments, return value and the    *)
(*             object it was applied to as it was before the call          *)
(*   Dim       the Dim template argument of the hypervector operations     *)
(*   in_a,     two hypervectors the caller holds                           *)
(*   in_b                                                                  *)
(*   result    the hypervector the last operation wrote                    *)
(*   bundler   the counters_ of a BinaryBundler<Dim>                       *)
(*   env       the environment variable HYPERSTREAM_HAMMING_SSE2_THRESHOLD *)
(*   history   the calls made on mem (or on bundler) since it was built or *)
(*             saved, oldest first                                         *)
(***************************************************************************)
VARIABLES kind, Capacity, mem, dst, stream, pc, nops, last,
          Dim, in_a, in_b, result, bundler, env, history

vars ==
  <<kind, Capacity, mem, dst, stream, pc, nops, last, Dim, in_a, in_b, result, bundler, env,
    history>>

opVars == <<Dim, in_a, in_b, result, bundler, env>>

\* HYPERSTREAM_HAMMING_SSE2_THRESHOLD is not in the environment.
NoEnv == [set |-> FALSE, value |-> <<>>]

\* The hypervector variables while only the memories are exercised.
OpsIdle ==
  /\ env = NoEnv
  /\ Dim = MemDim
  /\ in_a = HVClear(MemDim)
  /\ in_b = HVClear(MemDim)
  /\ result = HVClear(MemDim)
  /\ bundler = BundlerReset(MemDim)

Construct(k, C) ==
  IF k = "proto" THEN PrototypeMemoryInit(MemDim, C)
  ELSE IF k = "cluster" THEN ClusterMemoryInit(MemDim, C)
  ELSE CleanupMemoryInit(MemDim, C)

NoCall == [op |-> "none", ret |-> FALSE]

(***************************************************************************)
(* Inputs.                                                                 *)
(***************************************************************************)
LabelInputs == {U64(7), U64(9), U64(258)}

HVInputs == {HVOfBits(MemDim, {0}), HVOfBits(MemDim, {1, MemDim - 1}), HVOfBits(MemDim, {})}

\* Decay factors num / den: 0, 1/2, 1, 3/2 and -1/2.
DecayInputs == {<<0, 1>>, <<1, 2>>, <<1, 1>>, <<3, 2>>, <<-1, 2>>}

\* LoadRaw arguments: arrays of n items, each pointer possibly null.
RawArrays(n) ==
  [labels |-> Ptr([i \in 0..(n - 1) |-> U64(20 + i)]),
   label_counts |-> Ptr([i \in 0..(n - 1) |-> 5 + i]),
   bit_sums |-> Ptr([j \in 0..(n * MemDim - 1) |-> j - 2]),
   num_items |-> n]

RawArgInputs ==
  {[labels |-> IF ln THEN NullPtr ELSE RawArrays(n).labels,
    label_counts |-> IF cn THEN NullPtr ELSE RawArrays(n).label_counts,
    bit_sums |-> IF sn THEN NullPtr ELSE RawArrays(n).bit_sums,
    num_items |-> n] : n \in 0..(MaxCapacity + 1), ln \in BOOLEAN, cn \in BOOLEAN, sn \in BOOLEAN}

\* One cluster whose counters are beyond 2^24, where consecutive ints no longer
\* have floats of their own.
LargeRawArgInputs ==
  {[labels |-> Ptr([i \in 0..0 |-> U64(7)]),
    label_counts |-> Ptr([i \in 0..0 |-> 16777217]),
    bit_sums |-> Ptr([j \in 0..(MemDim - 1) |-> IF j = 0 THEN 16777217
                                                ELSE IF j = 1 THEN -16777217 ELSE 33554435]),
    num_items |-> 1]}

(***************************************************************************)
(* Calls on the memory objects.                                            *)
(***************************************************************************)
DoLearn(labels, hvs, limit) ==
  /\ kind = "proto" /\ pc = "build" /\ nops < limit
  /\ \E label \in labels, hv \in hvs :
       LET r == Learn(mem, Capacity, label, hv)
       IN /\ mem' = r.mem
          /\ last' = [op |-> "Learn", ret |-> r.ret, pre |-> mem, label |-> label, hv |-> hv]
          /\ history' = Append(history, [op |-> "Learn", ret |-> r.ret, label |-> label, hv |-> hv])
  /\ nops' = nops + 1
  /\ UNCHANGED <<kind, Capacity, dst, stream, pc>>
  /\ UNCHANGED opVars

DoInsert(hvs, limit) ==
  /\ kind = "cleanup" /\ pc = "build" /\ nops < limit
  /\ \E hv \in hvs :
       LET r == Insert(mem, Capacity, hv)
       IN /\ mem' = r.mem
          /\ last' = [op |-> "Insert", ret |-> r.ret, pre |-> mem, hv |-> hv]
          /\ history' = Append(history, [op |-> "Insert", ret |-> r.ret, hv |-> hv])
  /\ nops' = nops + 1
  /\ UNCHANGED <<kind, Capacity, dst, stream, pc>>
  /\ UNCHANGED opVars

DoUpdate(labels, hvs, limit) ==
  /\ kind = "cluster" /\ pc = "build" /\ nops < limit
  /\ \E label \in labels, hv \in hvs :
       LET r == Update(mem, MemDim, Capacity, label, hv)
       IN /\ mem' = r.mem
          /\ last' = [op |-> "Update", ret |-> r.ret, pre |-> mem, label |-> label, hv |-> hv]
          /\ history' = Append(history, [op |-> "Update", ret |-> r.ret, label |-> label, hv |-> hv])
  /\ nops' = nops + 1
  /\ UNCHANGED <<kind, Capacity, dst, stream, pc>>
  /\ UNCHANGED opVars

DoApplyDecay(factors, limit) ==
  /\ kind = "cluster" /\ pc = "build" /\ nops < limit
  /\ \E f \in factors :
       /\ mem' = ApplyDecay(mem, MemDim, f[1], f[2])
       /\ last' = [op |-> "ApplyDecay", ret |-> TRUE, pre |-> mem, factor |-> f]
       /\ history' = Append(history, [op |-> "ApplyDecay", ret |-> TRUE])
  /\ nops' = nops + 1
  /\ UNCHANGED <<kind, Capacity, dst, stream, pc>>
  /\ UNCHANGED opVars

DoLoadRaw(inputs, limit) ==
  /\ kind = "cluster" /\ pc = "build" /\ nops < limit
  /\ \E args \in inputs :
       LET r == LoadRaw(mem, MemDim, Capacity, args)
       IN /\ mem' = r.mem
          /\ last' = [op |-> "LoadRaw", ret |-> r.ret, pre |-> mem, args |-> args]
          /\ history' = Append(history, [op |-> "LoadRaw", ret |-> r.ret])
  /\ nops' = nops + 1
  /\ UNCHANGED <<kind, Capacity, dst, stream, pc>>
  /\ UNCHANGED opVars

(***************************************************************************)
(* The memories on their own.                                              *)
(***************************************************************************)
InitMem ==
  /\ kind \in {"proto", "cluster", "cleanup"}
  /\ Capacity \in 0..MaxCapacity
  /\ mem = Construct(kind, Capacity)
  /\ dst = Construct(kind, Capacity)
  /\ stream = <<>>
  /\ pc = "build"
  /\ nops = 0
  /\ last = NoCall
  /\ history = <<>>
  /\ OpsIdle

NextMem ==
  \/ DoLearn(LabelInputs, HVInputs, MaxOps)
  \/ DoInsert(HVInputs, MaxOps)
  \/ DoUpdate(LabelInputs, HVInputs, MaxOps)
  \/ DoApplyDecay(DecayInputs, MaxOps)
  \/ DoLoadRaw(RawArgInputs \cup LargeRawArgInputs, MaxOps)

SpecMem == InitMem /\ [][NextMem]_vars

(***************************************************************************)
(* The memories built as under SpecMem and queried with Classify and       *)
(* Restore.                                                                *)
(***************************************************************************)
\* The hypervectors stored, and one with every bit and a bit beyond MemDim set.
QueryInputs == HVInputs \cup {HVOfBits(MemDim, 0..MemDim)}

DoClassify ==
  /\ pc = "build" /\ kind = "proto"
  /\ \E query \in QueryInputs, default_label \in {U64(0), U64(7)} :
       last' = [op |-> "Classify", ret |-> Classify(mem, MemDim, query, default_label),
                inputs |-> <<query>>, default_label |-> default_label, before |-> mem]
  /\ UNCHANGED <<kind, Capacity, mem, dst, stream, pc, nops, history, opVars>>

DoRestore ==
  /\ pc = "build" /\ kind = "cleanup"
  /\ \E noisy \in QueryInputs, fallback \in {HVOfBits(MemDim, {2})} :
       last' = [op |-> "Restore", ret |-> Restore(mem, MemDim, noisy, fallback),
                inputs |-> <<noisy>>, fallback |-> fallback, before |-> mem]
  /\ UNCHANGED <<kind, Capacity, mem, dst, stream, pc, nops, history, opVars>>

\* Finalize of a label that may be stored, of one that is not, and of 0, which
\* the unused rows hold.
DoFinalize ==
  /\ pc = "build" /\ kind = "cluster"
  /\ \E label \in {U64(7), U64(9), U64(5), ZeroWord}, out \in {HVClear(MemDim), HVOfBits(MemDim, 0..MemDim)} :
       last' = [op |-> "Finalize", ret |-> ClusterFinalize(mem, MemDim, label, out),
                label |-> label, inputs |-> <<out>>, before |-> mem]
  /\ UNCHANGED <<kind, Capacity, mem, dst, stream, pc, nops, history, opVars>>

NextQuery ==
  \/ NextMem
  \/ DoClassify
  \/ DoRestore
  \/ DoFinalize

SpecQuery == InitMem /\ [][NextQuery]_vars

(***************************************************************************)
(* Saving a memory, and loading what a reader is then handed: the saved    *)
(* bytes, or those bytes cut short or with one byte changed.               *)
(***************************************************************************)
SavedLabelInputs == {U64(7), U64(9)}
SavedHVInputs == {HVOfBits(MemDim, {0}), HVOfBits(MemDim, {1, MemDim - 1})}
SavedDecayInputs == {<<1, 2>>}

\* XOR masks applied to one byte of a payload: lowest bit, highest bit, all bits.
FlipMasks == {1, 128, 255}

NoTamper == [how |-> "none", at |-> 0, mask |-> 0]

\* Ways of damaging a payload of len bytes: keep only the first `at` bytes, or
\* XOR the byte at 0-based offset `at` with `mask`.
Truncations(len) == {[how |-> "truncate", at |-> k, mask |-> 0] : k \in 0..(len - 1)}
Flips(len) == {[how |-> "flip", at |-> k, mask |-> x] : k \in 0..(len - 1), x \in FlipMasks}

Tamper(bytes, t) ==
  IF t.how = "truncate" THEN SubSeq(bytes, 1, t.at)
  ELSE IF t.how = "flip" THEN [bytes EXCEPT ![t.at + 1] = ByteXor(@, t.mask)]
  ELSE bytes

\* The calls made on a saved payload.  tgt: the destination is dst (freshly
\* constructed) or mem itself; mem_null: the destination pointer is null;
\* empty_data_null: std::vector::data() of an empty vector is null (it is with
\* libstdc++, the standard allows either).
LoadCall(tgt, t, seekable, mem_null, empty_data_null) ==
  [tgt |-> tgt, tamper |-> t, seekable |-> seekable, mem_null |-> mem_null,
   empty_data_null |-> empty_data_null]

\* An undamaged payload is loaded every way; a payload cut short is loaded
\* into dst from a seekable and from a non-seekable stream; a v1.1 payload with
\* one byte changed is loaded into dst from a seekable stream.
LoadInputs(len, write_v1) ==
  {LoadCall(tgt, NoTamper, seekable, FALSE, e) :
     tgt \in {"dst", "mem"}, seekable \in BOOLEAN, e \in BOOLEAN}
  \cup {LoadCall("dst", NoTamper, TRUE, TRUE, TRUE)}
  \cup {LoadCall("dst", t, seekable, FALSE, TRUE) : t \in Truncations(len), seekable \in BOOLEAN}
  \cup {LoadCall("dst", t, TRUE, FALSE, TRUE) : t \in IF write_v1 THEN {} ELSE Flips(len)}

Save(k, m, C, write_v1) ==
  IF k = "proto" THEN SavePrototype(m, MemDim, C, write_v1)
  ELSE SaveCluster(m, MemDim, C, write_v1)

Load(k, s, m, C, mem_null, empty_data_null) ==
  IF k = "proto" THEN LoadPrototype(s, m, MemDim, C, mem_null)
  ELSE LoadCluster(s, m, MemDim, C, mem_null, empty_data_null)

\* Save, with HYPERSTREAM_HSER1_WRITE_V1 defined (write_v1) or not.
DoSave ==
  /\ kind \in {"proto", "cluster"} /\ pc = "build"
  /\ \E write_v1 \in BOOLEAN :
       /\ stream' = Save(kind, mem, Capacity, write_v1)
       /\ last' = [op |-> "Save", ret |-> TRUE, pre |-> mem, write_v1 |-> write_v1]
  /\ pc' = "saved"
  /\ nops' = 0
  /\ history' = <<>>
  /\ UNCHANGED <<kind, Capacity, mem, dst>>
  /\ UNCHANGED opVars

DoLoad ==
  /\ kind \in {"proto", "cluster"} /\ pc = "saved"
  /\ \E c \in LoadInputs(Len(stream), last.write_v1) :
       LET given == [bytes |-> Tamper(stream, c.tamper), pos |-> 0,
                     seekable |-> c.seekable, fail |-> FALSE]
           target == IF c.tgt = "dst" THEN dst ELSE mem
           r == Load(kind, given, target, Capacity, c.mem_null, c.empty_data_null)
       IN /\ dst' = IF c.tgt = "dst" THEN r.mem ELSE dst
          /\ mem' = IF c.tgt = "mem" THEN r.mem ELSE mem
          /\ last' = [op |-> "Load", ret |-> r.ret, pre |-> target, call |-> c,
                      given |-> given, s |-> r.s, src |-> mem,
                      write_v1 |-> last.write_v1]
  /\ pc' = "loaded"
  /\ UNCHANGED <<kind, Capacity, stream, nops, history>>
  /\ UNCHANGED opVars

Init ==
  /\ kind \in {"proto", "cluster"}
  /\ Capacity \in 0..MaxCapacity
  /\ mem = Construct(kind, Capacity)
  /\ dst = Construct(kind, Capacity)
  /\ stream = <<>>
  /\ pc = "build"
  /\ nops = 0
  /\ last = NoCall
  /\ history = <<>>
  /\ OpsIdle

Next ==
  \/ DoLearn(SavedLabelInputs, SavedHVInputs, MaxSavedOps)
  \/ DoUpdate(SavedLabelInputs, SavedHVInputs, MaxSavedOps)
  \/ DoApplyDecay(SavedDecayInputs, MaxSavedOps)
  \/ DoLoadRaw(RawArgInputs, MaxSavedOps)
  \/ DoSave
  \/ DoLoad

Spec == Init /\ [][Next]_vars

(***************************************************************************)
(* The hypervector operations and encoders on their own: a bundler and a   *)
(* one-row cluster memory are fed first, then one operation writes result. *)
(***************************************************************************)
\* Dim arguments: below one word, exactly one word, between one and two words,
\* and between two and three words.
OpDims == {5, 64, 70, 130}

\* Largest number of Accumulate / Update calls made before the operation.
MaxAccumulate == 1


\* Hypervectors the caller holds: in_a has no bit at an index >= D; in_b may
\* have bit D set when the last word has room for it.
InputsA(D) ==
  {HVOfBits(D, {0}), HVOfBits(D, {D - 1}), HVOfBits(D, {0, D \div 2, D - 1}),
   HVOfBits(D, 0..(D - 1))}

InputsB(D) == {HVOfBits(D, {1}), HVOfBits(D, {0, D})}

RotateInputs(D) == {0, 1, 63, 64, 65, D - 1, D, D + 1, 127}
SeedInputs == {U64(0), kHashEncoderDefaultSeed}
SymbolInputs == {U64(0), U64(1), AllOnes}
\* "" and "abc".
TokenInputs == {<<>>, <<97, 98, 99>>}
NumHashesInputs == {1, 4}
RoleInputs == {0, 1}
\* (min_, max_, value): a range of width 4 and a degenerate range.
ThermometerInputs ==
  {<<0, 4, Double(v)>> : v \in {-1, 1, 3, 4, 5}} \cup {<<0, 4, NaN>>, <<4, 0, Double(1)>>}

OpLabel == U64(7)

OpAccumulate ==
  /\ pc = "ops" /\ nops < MaxAccumulate
  /\ \E hv \in {in_a, in_b} :
       /\ bundler' = BundlerAccumulate(bundler, hv, Dim)
       /\ last' = [op |-> "Accumulate", ret |-> TRUE, inputs |-> <<hv>>]
  /\ nops' = nops + 1
  /\ UNCHANGED <<kind, Capacity, mem, dst, stream, pc, Dim, in_a, in_b, result, env,
               history>>

OpUpdate ==
  /\ pc = "ops" /\ nops < MaxAccumulate
  /\ \E hv \in {in_a, in_b} :
       LET r == Update(mem, Dim, Capacity, OpLabel, hv)
       IN /\ mem' = r.mem
          /\ last' = [op |-> "Update", ret |-> r.ret, inputs |-> <<hv>>]
  /\ nops' = nops + 1
  /\ UNCHANGED <<kind, Capacity, dst, stream, pc, Dim, in_a, in_b, result, bundler, env,
               history>>

\* The operation `op` wrote `out` from the hypervectors `inputs`.
Wrote(op, inputs, rotate_by, out) ==
  /\ pc = "ops"
  /\ result' = out
  /\ last' = [op |-> op, ret |-> TRUE, inputs |-> inputs, rotate_by |-> rotate_by]
  /\ pc' = "done"
  /\ UNCHANGED <<kind, Capacity, mem, dst, stream, nops, Dim, in_a, in_b, bundler, env,
               history>>

OpBind ==
  \E vector_a \in {in_a, in_b}, vector_b \in {in_a, in_b} :
    Wrote("Bind", <<vector_a, vector_b>>, 0, Bind(vector_a, vector_b, Dim))

\* The output of a Bind bound once more with the same second operand.
OpBindAgain ==
  /\ pc = "done" /\ last.op = "Bind"
  /\ result' = Bind(result, last.inputs[2], Dim)
  /\ last' = [op |-> "BindAgain", ret |-> TRUE, inputs |-> last.inputs, rotate_by |-> 0,
              first |-> result]
  /\ pc' = "done2"
  /\ UNCHANGED <<kind, Capacity, mem, dst, stream, nops, Dim, in_a, in_b, bundler, env,
               history>>

OpBundlePairMajority ==
  Wrote("BundlePairMajority", <<in_a, in_b>>, 0, BundlePairMajority(in_a, in_b, Dim))

OpPermuteRotate ==
  \E input \in {in_a, in_b}, rotate_by \in RotateInputs(Dim) :
    Wrote("PermuteRotate", <<input>>, rotate_by, PermuteRotate(input, rotate_by, Dim))

\* The output of a PermuteRotate rotated once more, into a third hypervector.
OpPermuteRotateAgain ==
  /\ pc = "done" /\ last.op = "PermuteRotate"
  /\ \E rotate_by \in RotateInputs(Dim) :
       /\ result' = PermuteRotate(result, rotate_by, Dim)
       /\ last' = [op |-> "PermuteRotateAgain", ret |-> TRUE, inputs |-> last.inputs,
                   rotate_by |-> last.rotate_by, rotate_again |-> rotate_by,
                   first |-> result]
  /\ pc' = "done2"
  /\ UNCHANGED <<kind, Capacity, mem, dst, stream, nops, Dim, in_a, in_b, bundler, env,
               history>>

\* result holds a copy of the input and is rotated in place:
\* PermuteRotate(result, rotate_by, &result).
OpPermuteRotateInPlace ==
  \E input \in {in_a, in_b}, rotate_by \in RotateInputs(Dim) :
    Wrote("PermuteRotateInPlace", <<input>>, rotate_by,
          PermuteRotateInPlace(input, rotate_by, Dim))

OpGenerateRandomHypervector ==
  \E seed_value \in SeedInputs, symbol_value \in SymbolInputs :
    Wrote("GenerateRandomHypervector", <<>>, 0,
          GenerateRandomHypervector(seed_value, symbol_value, result, Dim))

OpEncodeId ==
  \E seed \in SeedInputs, identifier \in SymbolInputs :
    Wrote("EncodeId", <<>>, 0, EncodeId(seed, identifier, Dim))

OpEncodeToken ==
  \E seed \in SeedInputs, token \in TokenInputs :
    Wrote("EncodeToken", <<>>, 0, EncodeToken(seed, token, Dim))

OpHashEncodeToken ==
  \E num_hashes \in NumHashesInputs, token \in TokenInputs, role_index \in RoleInputs :
    Wrote("HashEncoder.EncodeToken", <<>>, role_index,
          HashEncoderEncodeToken(num_hashes, kHashEncoderDefaultSeed, token, role_index, Dim))

OpThermometerEncode ==
  \E t \in ThermometerInputs, nan_bits \in {0, Dim} :
    /\ (~t[3].nan => nan_bits = 0)
    /\ Wrote("ThermometerEncoder.Encode", <<>>, 0,
             ThermometerEncode(t[1], t[2], t[3], nan_bits, Dim))

\* Finalize into a cleared hypervector or over in_b.
OpBundlerFinalize ==
  \E out \in {HVClear(Dim), in_b} :
    Wrote("BinaryBundler.Finalize", <<out>>, 0, BundlerFinalize(bundler, out, Dim))

\* Finalize of the label that may have been learned and of one that was not.
OpClusterFinalize ==
  \E label \in {OpLabel, U64(9)} :
    Wrote("ClusterMemory.Finalize", <<>>, 0, ClusterFinalize(mem, Dim, label, result))

InitOps ==
  /\ Dim \in OpDims
  /\ in_a \in InputsA(Dim)
  /\ in_b \in InputsB(Dim)
  /\ result = HVClear(Dim)
  /\ bundler = BundlerReset(Dim)
  /\ env = NoEnv
  /\ kind = "cluster"
  /\ Capacity = 1
  /\ mem = ClusterMemoryInit(Dim, 1)
  /\ dst = ClusterMemoryInit(Dim, 1)
  /\ stream = <<>>
  /\ pc = "ops"
  /\ nops = 0
  /\ last = NoCall
  /\ history = <<>>

NextOps ==
  \/ OpAccumulate
  \/ OpUpdate
  \/ OpBind
  \/ OpBindAgain
  \/ OpBundlePairMajority
  \/ OpPermuteRotate
  \/ OpPermuteRotateAgain
  \/ OpPermuteRotateInPlace
  \/ OpGenerateRandomHypervector
  \/ OpEncodeId
  \/ OpEncodeToken
  \/ OpHashEncodeToken
  \/ OpThermometerEncode
  \/ OpBundlerFinalize
  \/ OpClusterFinalize

SpecOps == InitOps /\ [][NextOps]_vars

(***************************************************************************)
(* backend: CPU feature masks, the Hamming threshold read from the         *)
(* environment, and the backend decisions of policy.hpp.                   *)
(***************************************************************************)
\* enum class CpuFeature.
CpuFeatureSSE2 == 1
CpuFeatureAVX2 == 2
CpuFeatureNEON == 4

\* bool HasFeature(mask, feature), for masks below 256.
HasFeature(mask, feature) == ByteAnd(mask, feature) # 0

kHammingPreferSSE2DimThreshold == 16384

\* isspace and isdigit in the "C" locale, on character codes.
IsSpace(c) == c \in {32, 9, 10, 11, 12, 13}
IsDigit(c) == 48 <= c /\ c <= 57

\* ULLONG_MAX / 10; ULLONG_MAX % 10 is 5.
kUllMaxDiv10 == <<153, 153, 153, 153, 153, 153, 153, 25>>
kBase10 == 10

\* 1-based index of the first character at or after i that is not white space.
RECURSIVE SkipSpace(_, _)
SkipSpace(str, i) ==
  IF i <= Len(str) /\ IsSpace(str[i]) THEN SkipSpace(str, i + 1) ELSE i

\* The digits of str from index i: where they end, their value modulo 2^64, and
\* whether the value left the range of unsigned long long.
RECURSIVE ParseDigits(_, _, _, _)
ParseDigits(str, i, acc, overflow) ==
  IF acc = acc /\ i <= Len(str) /\ IsDigit(str[i])
    THEN LET digit == str[i] - 48
             over == \/ overflow
                     \/ U64Gt(acc, kUllMaxDiv10)
                     \/ (acc = kUllMaxDiv10 /\ digit > 5)
         IN ParseDigits(str, i + 1, WordAdd(WordMul(acc, U64(kBase10)), U64(digit)), over)
    ELSE [end |-> i, value |-> acc, overflow |-> overflow]

\* std::strtoull(str, &end, 10): the value returned and the offset of end from
\* str.  White space and one sign are skipped; without a digit nothing is
\* consumed; a value out of range gives ULLONG_MAX; a minus sign negates.
Strtoull(str) ==
  LET i == SkipSpace(str, 1)
      signed == i <= Len(str) /\ str[i] \in {43, 45}
      negative == signed /\ str[i] = 45
      first == IF signed THEN i + 1 ELSE i
      d == ParseDigits(str, first, ZeroWord, FALSE)
  IN IF d.end = first THEN [value |-> ZeroWord, end |-> 0]
     ELSE [value |-> IF d.overflow THEN AllOnes
                     ELSE IF negative THEN WordNeg(d.value) ELSE d.value,
           end |-> d.end - 1]

\* std::size_t GetHammingThreshold(), e being what getenv finds.
GetHammingThreshold(e) ==
  IF ~e.set \/ e.value = <<>> THEN U64(kHammingPreferSSE2DimThreshold)
  ELSE LET parsed == Strtoull(e.value)
       IN IF parsed.end = 0 \/ parsed.end # Len(e.value)
            THEN U64(kHammingPreferSSE2DimThreshold)
          ELSE IF parsed.value = ZeroWord THEN U64(kHammingPreferSSE2DimThreshold)
          ELSE parsed.value

\* bool HammingThresholdOverridden().
HammingThresholdOverridden(e) ==
  IF ~e.set \/ e.value = <<>> THEN FALSE
  ELSE LET parsed == Strtoull(e.value)
       IN parsed.end # 0 /\ parsed.end = Len(e.value)

\* detail::DecideBind: the BackendKind chosen.  force_scalar is the compile-time
\* switch HYPERSTREAM_FORCE_SCALAR.
DecideBind(dim_bits, feature_mask, force_scalar) ==
  IF force_scalar THEN "Scalar"
  ELSE IF HasFeature(feature_mask, CpuFeatureAVX2) THEN "AVX2"
  ELSE IF HasFeature(feature_mask, CpuFeatureSSE2) THEN "SSE2"
  ELSE IF HasFeature(feature_mask, CpuFeatureNEON) THEN "NEON"
  ELSE "Scalar"

\* DecideHamming with the comparison dim_bits > thr.
DecideHammingAboveThreshold(dim_bits, feature_mask, force_scalar, e) ==
  IF force_scalar THEN "Scalar"
  ELSE IF HasFeature(feature_mask, CpuFeatureAVX2)
    THEN IF U64Gt(U64(dim_bits), GetHammingThreshold(e))
              /\ HasFeature(feature_mask, CpuFeatureSSE2)
           THEN "SSE2" ELSE "AVX2"
  ELSE IF HasFeature(feature_mask, CpuFeatureSSE2) THEN "SSE2"
  ELSE IF HasFeature(feature_mask, CpuFeatureNEON) THEN "NEON"
  ELSE "Scalar"

\* detail::DecideHamming: the BackendKind chosen.
DecideHamming(dim_bits, feature_mask, force_scalar, e) ==
  IF force_scalar THEN "Scalar"
  ELSE IF HasFeature(feature_mask, CpuFeatureAVX2)
    THEN IF ~U64Gt(GetHammingThreshold(e), U64(dim_bits))
              /\ HasFeature(feature_mask, CpuFeatureSSE2)
           THEN "SSE2" ELSE "AVX2"
  ELSE IF HasFeature(feature_mask, CpuFeatureSSE2) THEN "SSE2"
  ELSE IF HasFeature(feature_mask, CpuFeatureNEON) THEN "NEON"
  ELSE "Scalar"

(***************************************************************************)
(* The policy on its own: the environment variable is set or removed, and  *)
(* the threshold and the decisions are asked for.                          *)
(***************************************************************************)
\* Largest number of changes made to the environment variable.
MaxEnvChanges == 1

Env(str) == [set |-> TRUE, value |-> str]

\* unset, "", "0", "1", "42", "16384", "007", "12abc", "42 ", " 42", "+5",
\* "-5", "18446744073709551615", "18446744073709551616".
EnvInputs ==
  {NoEnv, Env(<<>>), Env(<<48>>), Env(<<49>>), Env(<<52, 50>>),
   Env(<<49, 54, 51, 56, 52>>), Env(<<48, 48, 55>>),
   Env(<<49, 50, 97, 98, 99>>), Env(<<52, 50, 32>>),
   Env(<<32, 52, 50>>), Env(<<43, 53>>), Env(<<45, 53>>),
   Env(<<49, 56, 52, 52, 54, 55, 52, 52, 48, 55, 51, 55, 48, 57, 53, 53, 49, 54, 49, 53>>),
   Env(<<49, 56, 52, 52, 54, 55, 52, 52, 48, 55, 51, 55, 48, 57, 53, 53, 49, 54, 49, 54>>)}

\* Feature masks: every subset of {SSE2, AVX2, NEON}, and a bit that names none.
FeatureMasks == 0..8

\* Dimensions around the thresholds 42 and 16384.
PolicyDims == {41, 42, 16383, 16384, 16385}

PolicyUnchanged ==
  UNCHANGED <<kind, Capacity, mem, dst, stream, pc, Dim, in_a, in_b, result, bundler, history>>

\* setenv / unsetenv of HYPERSTREAM_HAMMING_SSE2_THRESHOLD.
DoSetEnv ==
  /\ pc = "policy" /\ nops < MaxEnvChanges
  /\ \E e \in EnvInputs \ {env} :
       /\ env' = e
       /\ last' = [op |-> "setenv", ret |-> TRUE, env |-> e]
  /\ nops' = nops + 1
  /\ PolicyUnchanged

DoGetHammingThreshold ==
  /\ pc = "policy"
  /\ last' = [op |-> "GetHammingThreshold", ret |-> GetHammingThreshold(env), env |-> env]
  /\ UNCHANGED <<env, nops>>
  /\ PolicyUnchanged

DoHammingThresholdOverridden ==
  /\ pc = "policy"
  /\ last' = [op |-> "HammingThresholdOverridden", ret |-> HammingThresholdOverridden(env),
              env |-> env]
  /\ UNCHANGED <<env, nops>>
  /\ PolicyUnchanged

DoDecideBind ==
  /\ pc = "policy"
  /\ \E dim_bits \in PolicyDims, feature_mask \in FeatureMasks, force_scalar \in BOOLEAN :
       last' = [op |-> "DecideBind", ret |-> DecideBind(dim_bits, feature_mask, force_scalar),
                env |-> env, dim_bits |-> dim_bits, feature_mask |-> feature_mask,
                force_scalar |-> force_scalar]
  /\ UNCHANGED <<env, nops>>
  /\ PolicyUnchanged

DoDecideHamming ==
  /\ pc = "policy"
  /\ \E dim_bits \in PolicyDims, feature_mask \in FeatureMasks, force_scalar \in BOOLEAN :
       last' = [op |-> "DecideHamming",
                ret |-> DecideHamming(dim_bits, feature_mask, force_scalar, env),
                env |-> env, dim_bits |-> dim_bits, feature_mask |-> feature_mask,
                force_scalar |-> force_scalar]
  /\ UNCHANGED <<env, nops>>
  /\ PolicyUnchanged

InitPolicy ==
  /\ env \in EnvInputs
  /\ pc = "policy"
  /\ nops = 0
  /\ last = NoCall
  /\ history = <<>>
  /\ kind = "proto"
  /\ Capacity = 0
  /\ mem = Construct("proto", 0)
  /\ dst = Construct("proto", 0)
  /\ stream = <<>>
  /\ Dim = MemDim
  /\ in_a = HVClear(MemDim)
  /\ in_b = HVClear(MemDim)
  /\ result = HVClear(MemDim)
  /\ bundler = BundlerReset(MemDim)

NextPolicy ==
  \/ DoSetEnv
  \/ DoGetHammingThreshold
  \/ DoHammingThresholdOverridden
  \/ DoDecideBind
  \/ DoDecideHamming

SpecPolicy == InitPolicy /\ [][NextPolicy]_vars

(***************************************************************************)
(* backend: BindWords and HammingWords of the SSE2, AVX2 and NEON          *)
(* backends.  A word array is a function on 0..(N - 1); each loop carries  *)
(* its index, what it has written or summed, and how often it has          *)
(* processed each index.                                                   *)
(***************************************************************************)
kWordsPer128Bit == 2
kWordsPer256Bit == 4
kLowNibbleMask == 15

\* The lookup vector of avx2::Popcount256 (one 128-bit half of it).
kPopcountLookup == <<0, 1, 1, 2, 1, 2, 2, 3, 1, 2, 2, 3, 2, 3, 3, 4>>

\* Step 1 of avx2::Popcount256 for one byte: the two nibble lookups added
\* with _mm256_add_epi8.
Popcount256Byte(b) ==
  (kPopcountLookup[ByteAnd(b, kLowNibbleMask) + 1]
   + kPopcountLookup[ByteAnd(b \div 16, kLowNibbleMask) + 1]) % 256

\* _mm256_sad_epu8 against zero, for one 64-bit lane.
Popcount256Lane(word) ==
  Popcount256Byte(word[1]) + Popcount256Byte(word[2]) + Popcount256Byte(word[3])
  + Popcount256Byte(word[4]) + Popcount256Byte(word[5]) + Popcount256Byte(word[6])
  + Popcount256Byte(word[7]) + Popcount256Byte(word[8])

\* avx2::Popcount256 of the four lanes vector_value.
Popcount256(vector_value) ==
  Popcount256Lane(vector_value[1]) + Popcount256Lane(vector_value[2])
  + Popcount256Lane(vector_value[3]) + Popcount256Lane(vector_value[4])

\* vpaddlq_u8, vpaddlq_u16, vpaddlq_u32: neighbours added pairwise.
PairwiseAdd(lanes) == [k \in 1..(Len(lanes) \div 2) |-> lanes[2 * k - 1] + lanes[2 * k]]

\* The reduction in neon::HammingWords: vcntq_u8 on the 16 bytes, three
\* widening pairwise additions, and the two lanes added.
NeonPopcount128(vec_xor) ==
  LET popcnt_bytes == [k \in 1..16 |-> BytePopcount(vec_xor[((k - 1) \div 8) + 1][((k - 1) % 8) + 1])]
      sum64 == PairwiseAdd(PairwiseAdd(PairwiseAdd(popcnt_bytes)))
  IN sum64[1] + sum64[2]

\* What one pass of a backend's vector loop adds to total.
VectorPopcount(backend, vec_xor) ==
  IF backend = "SSE2" THEN Popcount64(vec_xor[1]) + Popcount64(vec_xor[2])
  ELSE IF backend = "AVX2" THEN Popcount256(vec_xor)
  ELSE NeonPopcount128(vec_xor)

\* Words per vector of a backend.
WordsPerVector(backend) == IF backend = "AVX2" THEN kWordsPer256Bit ELSE kWordsPer128Bit

\* A loop that does nothing.
SkippedLoop(lhs_words, rhs_words, st, limit) == st

\* The vector loop of BindWords: lanes words are loaded, XORed and stored.
RECURSIVE BindVectorLoop(_, _, _, _, _)
BindVectorLoop(lhs_words, rhs_words, st, vector_loop_words, lanes) ==
  IF st = st /\ st.word_index < vector_loop_words
    THEN LET here == st.word_index..(st.word_index + lanes - 1)
         IN BindVectorLoop(lhs_words, rhs_words,
              [out |-> [w \in DOMAIN st.out |->
                          IF w \in here THEN WordXor(lhs_words[w], rhs_words[w]) ELSE st.out[w]],
               touched |-> [w \in DOMAIN st.touched |->
                              IF w \in here THEN st.touched[w] + 1 ELSE st.touched[w]],
               word_index |-> st.word_index + lanes],
              vector_loop_words, lanes)
    ELSE st

\* The scalar tail of BindWords.
RECURSIVE BindScalarTail(_, _, _, _)
BindScalarTail(lhs_words, rhs_words, st, word_count) ==
  IF st = st /\ st.word_index < word_count
    THEN BindScalarTail(lhs_words, rhs_words,
           [out |-> [st.out EXCEPT ![st.word_index] =
                       WordXor(lhs_words[st.word_index], rhs_words[st.word_index])],
            touched |-> [st.touched EXCEPT ![st.word_index] = @ + 1],
            word_index |-> st.word_index + 1],
           word_count)
    ELSE st

\* BindWords(lhs_words, rhs_words, out) of a backend.
BindWords(backend, lhs_words, rhs_words, out) ==
  LET word_count == Cardinality(DOMAIN lhs_words)
      lanes == WordsPerVector(backend)
      vector_loop_words == (word_count \div lanes) * lanes
      start == [out |-> out, touched |-> [w \in DOMAIN out |-> 0], word_index |-> 0]
  IN BindScalarTail(lhs_words, rhs_words,
       BindVectorLoop(lhs_words, rhs_words, start, vector_loop_words, lanes), word_count)

\* The vector loop of HammingWords.
RECURSIVE HammingVectorLoop(_, _, _, _, _)
HammingVectorLoop(backend, lhs_words, rhs_words, st, vector_loop_words) ==
  IF st = st /\ st.word_index < vector_loop_words
    THEN LET lanes == WordsPerVector(backend)
             here == st.word_index..(st.word_index + lanes - 1)
             vec_xor == [k \in 1..lanes |-> WordXor(lhs_words[st.word_index + k - 1],
                                                    rhs_words[st.word_index + k - 1])]
         IN HammingVectorLoop(backend, lhs_words, rhs_words,
              [total |-> st.total + VectorPopcount(backend, vec_xor),
               touched |-> [w \in DOMAIN st.touched |->
                              IF w \in here THEN st.touched[w] + 1 ELSE st.touched[w]],
               word_index |-> st.word_index + lanes],
              vector_loop_words)
    ELSE st

\* The scalar tail of HammingWords.
RECURSIVE HammingScalarTail(_, _, _, _)
HammingScalarTail(lhs_words, rhs_words, st, word_count) ==
  IF st = st /\ st.word_index < word_count
    THEN HammingScalarTail(lhs_words, rhs_words,
           [total |-> st.total
                      + Popcount64(WordXor(lhs_words[st.word_index], rhs_words[st.word_index])),
            touched |-> [st.touched EXCEPT ![st.word_index] = @ + 1],
            word_index |-> st.word_index + 1],
           word_count)
    ELSE st

\* HammingWords(lhs_words, rhs_words) of a backend.
HammingWords(backend, lhs_words, rhs_words) ==
  LET word_count == Cardinality(DOMAIN lhs_words)
      vector_loop_words == (word_count \div WordsPerVector(backend)) * WordsPerVector(backend)
      start == [total |-> 0, touched |-> [w \in DOMAIN lhs_words |-> 0], word_index |-> 0]
  IN HammingScalarTail(lhs_words, rhs_words,
       HammingVectorLoop(backend, lhs_words, rhs_words, start, vector_loop_words), word_count)

(***************************************************************************)
(* The backends on their own: two word arrays of N words and an output     *)
(* array, and one call of BindWords or HammingWords.                       *)
(***************************************************************************)
\* Largest number of words in an array.
MaxWords == 9

\* Number of different word arrays of each length.
MaxSeeds == 3

Backends == {"SSE2", "AVX2", "NEON"}

\* An array of N words, every word different from its neighbours.
BackendWords(N, seed) ==
  [w \in 0..(N - 1) |->
     [k \in 1..8 |-> (29 * seed * (w + 1) * k + 7 * w + 13 * seed + 31 * k * k) % 256]]

BackendUnchanged == UNCHANGED <<kind, Capacity, mem, dst, stream, nops, Dim, in_a, in_b, bundler,
                                env, history>>

DoBindWords ==
  /\ pc = "backend"
  /\ \E backend \in Backends :
       LET done == BindWords(backend, in_a, in_b, result)
       IN /\ result' = done.out
          /\ last' = [op |-> "BindWords", ret |-> TRUE, backend |-> backend,
                      touched |-> done.touched]
  /\ pc' = "done"
  /\ BackendUnchanged

DoHammingWords ==
  /\ pc = "backend"
  /\ \E backend \in Backends :
       LET done == HammingWords(backend, in_a, in_b)
       IN last' = [op |-> "HammingWords", ret |-> done.total, backend |-> backend,
                   touched |-> done.touched]
  /\ pc' = "done"
  /\ UNCHANGED result
  /\ BackendUnchanged

InitBackend ==
  /\ \E N \in 1..MaxWords :
       /\ Dim = kWordBits * N
       /\ in_a \in {BackendWords(N, seed) : seed \in 1..MaxSeeds}
       /\ in_b \in {BackendWords(N, seed) : seed \in 1..MaxSeeds}
       /\ result = [w \in 0..(N - 1) |-> AllOnes]
  /\ pc = "backend"
  /\ nops = 0
  /\ last = NoCall
  /\ history = <<>>
  /\ env = NoEnv
  /\ kind = "proto"
  /\ Capacity = 0
  /\ mem = Construct("proto", 0)
  /\ dst = Construct("proto", 0)
  /\ stream = <<>>
  /\ bundler = BundlerReset(MemDim)

NextBackend ==
  \/ DoBindWords
  \/ DoHammingWords

SpecBackend == InitBackend /\ [][NextBackend]_vars

(***************************************************************************)
(* HammingDistance on its own: three hypervectors (in_a, in_b and result)  *)
(* and a few calls on pairs of them, each recorded in history.             *)
(***************************************************************************)
\* Largest number of HammingDistance calls.
MaxCalls == 3

MetricDims == {5, 70}

\* Nothing set, the ends, the last bit, every bit, and one with a bit beyond D.
MetricInputs(D) ==
  {HVOfBits(D, {}), HVOfBits(D, {0, D - 1}), HVOfBits(D, {D - 1}), HVOfBits(D, 0..(D - 1)),
   HVOfBits(D, {0, D})}

DoHammingDistance ==
  /\ pc = "metric" /\ Len(history) < MaxCalls
  /\ \E vector_a \in {in_a, in_b, result}, vector_b \in {in_a, in_b, result} :
       last' = [op |-> "HammingDistance", ret |-> HammingDistance(vector_a, vector_b, Dim),
                inputs |-> <<vector_a, vector_b>>]
  /\ history' = Append(history, last')
  /\ UNCHANGED <<kind, Capacity, mem, dst, stream, pc, nops, Dim, in_a, in_b, result, bundler,
               env>>

InitMetric ==
  /\ Dim \in MetricDims
  /\ in_a \in MetricInputs(Dim)
  /\ in_b \in MetricInputs(Dim) \ {HVOfBits(Dim, {Dim - 1})}
  /\ result \in {HVOfBits(Dim, {0, Dim - 1}), HVOfBits(Dim, {0})}
  /\ pc = "metric"
  /\ nops = 0
  /\ last = NoCall
  /\ history = <<>>
  /\ env = NoEnv
  /\ kind = "proto"
  /\ Capacity = 0
  /\ mem = Construct("proto", 0)
  /\ dst = Construct("proto", 0)
  /\ stream = <<>>
  /\ bundler = BundlerReset(MemDim)

NextMetric == DoHammingDistance

SpecMetric == InitMetric /\ [][NextMetric]_vars

(***************************************************************************)
(* BinaryBundler on its own: Reset, runs of Accumulate calls and Finalize. *)
(* history holds the runs accumulated since the last Reset.                *)
(***************************************************************************)
\* Largest number of runs of Accumulate calls between two Resets.
MaxRuns == 2

BundlerDims == {2}

\* Every bit set, no bit set, bit 0 set.
BundlerInputs(D) == {HVOfBits(D, 0..(D - 1)), HVOfBits(D, {}), HVOfBits(D, {0})}

\* Numbers of calls in a run: one, one short of the largest counter, and one
\* more than it.
RunLengths == {1, kCounterMax - 1, kCounterMax + 1}

\* Accumulate(hypervector) called times times in a row: counters_ after the
\* last call.
RECURSIVE BundlerAccumulateTimes(_, _, _, _)
BundlerAccumulateTimes(counters, hypervector, D, times) ==
  IF times = 0 THEN counters
  ELSE IF times = 1 THEN BundlerAccumulate(counters, hypervector, D)
  ELSE LET half == BundlerAccumulateTimes(counters, hypervector, D, times \div 2)
       IN IF half = half
            THEN BundlerAccumulateTimes(half, hypervector, D, times - (times \div 2))
            ELSE half

BundlerUnchanged == UNCHANGED <<kind, Capacity, mem, dst, stream, nops, Dim, in_a, in_b, env>>

DoBundlerReset ==
  /\ pc = "bundler" /\ history # <<>>
  /\ bundler' = BundlerReset(Dim)
  /\ last' = [op |-> "Reset", ret |-> TRUE]
  /\ history' = <<>>
  /\ UNCHANGED <<pc, result>>
  /\ BundlerUnchanged

DoBundlerAccumulate ==
  /\ pc = "bundler" /\ Len(history) < MaxRuns
  /\ \E hypervector \in BundlerInputs(Dim), times \in RunLengths :
       /\ bundler' = BundlerAccumulateTimes(bundler, hypervector, Dim, times)
       /\ last' = [op |-> "Accumulate", ret |-> TRUE, inputs |-> <<hypervector>>,
                   times |-> times, before |-> bundler]
       /\ history' = Append(history, [op |-> "Accumulate", inputs |-> <<hypervector>>,
                                      times |-> times])
  /\ UNCHANGED <<pc, result>>
  /\ BundlerUnchanged

DoBundlerFinalize ==
  /\ pc = "bundler"
  /\ \E out \in {HVOfBits(Dim, {0, Dim - 1})} :
       /\ result' = BundlerFinalize(bundler, out, Dim)
       /\ last' = [op |-> "Finalize", ret |-> TRUE, inputs |-> <<out>>]
  /\ pc' = "done"
  /\ UNCHANGED <<bundler, history>>
  /\ BundlerUnchanged

InitBundler ==
  /\ Dim \in BundlerDims
  /\ bundler = BundlerReset(Dim)
  /\ result = HVClear(Dim)
  /\ in_a = HVClear(Dim)
  /\ in_b = HVClear(Dim)
  /\ pc = "bundler"
  /\ nops = 0
  /\ last = NoCall
  /\ history = <<>>
  /\ env = NoEnv
  /\ kind = "proto"
  /\ Capacity = 0
  /\ mem = Construct("proto", 0)
  /\ dst = Construct("proto", 0)
  /\ stream = <<>>

NextBundler ==
  \/ DoBundlerReset
  \/ DoBundlerAccumulate
  \/ DoBundlerFinalize

SpecBundler == InitBundler /\ [][NextBundler]_vars

(***************************************************************************)
(* A reader handed a prototype payload someone else wrote: a header, the    *)
(* entries, and either no trailer (v1) or the trailer with their CRC        *)
(* (v1.1).  LoadPrototype fills a freshly constructed memory from it, which *)
(* is then added to and queried.                                            *)
(***************************************************************************)
\* The words a payload may hold for an entry: bit 0; bit 0 and the bit at index
\* MemDim, which is beyond the dimension; no bit.
GivenHVInputs == {HVOfBits(MemDim, {0}), HVOfBits(MemDim, {0, MemDim}), HVOfBits(MemDim, {})}

\* The entries of a payload with n entries, the i-th labelled 258 - 251 * i.
GivenEntries(n) ==
  {[entries |-> [i \in 0..(MaxCapacity - 1) |->
                   IF i < n THEN [label |-> U64(258 - 251 * i), hv |-> hvs[i]]
                            ELSE DefaultEntry(MemDim)],
    size |-> n] : hvs \in [0..(n - 1) -> GivenHVInputs]}

\* The payloads that name the dimension and the capacity of the reader.
GivenPayloads(C) ==
  {SavePrototype(image, MemDim, C, write_v1) :
     image \in UNION {GivenEntries(n) : n \in 0..C}, write_v1 \in BOOLEAN}

DoLoadGiven ==
  /\ pc = "given"
  /\ \E seekable \in BOOLEAN :
       LET given == [bytes |-> stream, pos |-> 0, seekable |-> seekable, fail |-> FALSE]
           r == LoadPrototype(given, mem, MemDim, Capacity, FALSE)
       IN /\ mem' = r.mem
          /\ last' = [op |-> "Load", ret |-> r.ret, pre |-> mem, given |-> given]
          /\ history' = Append(history, [op |-> "Load", ret |-> r.ret])
  /\ pc' = "build"
  /\ UNCHANGED <<kind, Capacity, dst, stream, nops>>
  /\ UNCHANGED opVars

InitReader ==
  /\ kind = "proto"
  /\ Capacity \in 1..MaxCapacity
  /\ mem = Construct(kind, Capacity)
  /\ dst = Construct(kind, Capacity)
  /\ stream \in GivenPayloads(Capacity)
  /\ pc = "given"
  /\ nops = 0
  /\ last = NoCall
  /\ history = <<>>
  /\ OpsIdle

\* After the load at most one entry is added.
NextReader ==
  \/ DoLoadGiven
  \/ DoLearn({U64(9)}, {HVOfBits(MemDim, {1, MemDim - 1})}, 1)
  \/ DoClassify

SpecReader == InitReader /\ [][NextReader]_vars

(***************************************************************************)
(* SelectBindBackend, SelectHammingBackend and Report of backend/policy.hpp *)
(* in one build: mem holds the target architecture the preprocessor chose,  *)
(* whether HYPERSTREAM_FORCE_SCALAR is defined, and what                    *)
(* GetCpuFeatureMask() returns on the host.                                 *)
(***************************************************************************)
Targets == {"x86", "arm64", "other"}
SelectDims == {42, 16384}

\* The masks GetCpuFeatureMask() can return on a host of the target.
HostMasks(target, force_scalar) ==
  IF force_scalar THEN {0}
  ELSE IF target = "x86" THEN {0, CpuFeatureSSE2, CpuFeatureSSE2 + CpuFeatureAVX2}
  ELSE IF target = "arm64" THEN {0, CpuFeatureNEON}
  ELSE {0}

\* SelectBindBackend<Dim>(feature_mask): the backend whose Bind is returned.
SelectBindBackend(build, dim_bits, feature_mask) ==
  IF build.target = "x86"
    THEN LET d == DecideBind(dim_bits, feature_mask, build.force_scalar)
         IN IF d = "AVX2" THEN "AVX2" ELSE IF d = "SSE2" THEN "SSE2" ELSE "Scalar"
  ELSE IF build.target = "arm64"
    THEN LET d == DecideBind(dim_bits, build.host_mask, build.force_scalar)
         IN IF d = "NEON" THEN "NEON" ELSE "Scalar"
  ELSE "Scalar"

\* SelectHammingBackend<Dim>(feature_mask): the backend whose HammingDistance is
\* returned.
SelectHammingBackend(build, dim_bits, feature_mask, e) ==
  IF build.target = "x86"
    THEN LET d == DecideHamming(dim_bits, feature_mask, build.force_scalar, e)
         IN IF d = "AVX2" THEN "AVX2" ELSE IF d = "SSE2" THEN "SSE2" ELSE "Scalar"
  ELSE IF build.target = "arm64"
    THEN LET d == DecideHamming(dim_bits, build.host_mask, build.force_scalar, e)
         IN IF d = "NEON" THEN "NEON" ELSE "Scalar"
  ELSE "Scalar"

\* PolicyReport Report<Dim>(feature_mask), without the reasons.
Report(build, dim_bits, feature_mask, e) ==
  [dim_bits |-> dim_bits, feature_mask |-> feature_mask,
   bind_kind |-> DecideBind(dim_bits, feature_mask, build.force_scalar),
   hamming_kind |-> DecideHamming(dim_bits, feature_mask, build.force_scalar, e)]

\* A call with the default argument (the host's mask) or with a mask passed in.
SelectMasks == FeatureMasks \cup {mem.host_mask}

SelectUnchanged ==
  UNCHANGED <<kind, Capacity, mem, dst, stream, pc, nops, Dim, in_a, in_b, result, bundler,
              env, history>>

DoSelectBindBackend ==
  /\ pc = "select"
  /\ \E dim_bits \in SelectDims, feature_mask \in SelectMasks :
       last' = [op |-> "SelectBindBackend", ret |-> SelectBindBackend(mem, dim_bits, feature_mask),
                dim_bits |-> dim_bits, feature_mask |-> feature_mask]
  /\ SelectUnchanged

DoSelectHammingBackend ==
  /\ pc = "select"
  /\ \E dim_bits \in SelectDims, feature_mask \in SelectMasks :
       last' = [op |-> "SelectHammingBackend",
                ret |-> SelectHammingBackend(mem, dim_bits, feature_mask, env),
                dim_bits |-> dim_bits, feature_mask |-> feature_mask]
  /\ SelectUnchanged

DoReport ==
  /\ pc = "select"
  /\ \E dim_bits \in SelectDims, feature_mask \in SelectMasks :
       last' = [op |-> "Report", ret |-> Report(mem, dim_bits, feature_mask, env),
                dim_bits |-> dim_bits, feature_mask |-> feature_mask]
  /\ SelectUnchanged

InitSelect ==
  /\ \E target \in Targets, force_scalar \in BOOLEAN :
       \E host_mask \in HostMasks(target, force_scalar) :
         mem = [target |-> target, force_scalar |-> force_scalar, host_mask |-> host_mask]
  /\ env \in {NoEnv, Env(<<52, 50>>)}
  /\ pc = "select"
  /\ nops = 0
  /\ last = NoCall
  /\ history = <<>>
  /\ kind = "proto"
  /\ Capacity = 0
  /\ dst = Construct("proto", 0)
  /\ stream = <<>>
  /\ Dim = MemDim
  /\ in_a = HVClear(MemDim)
  /\ in_b = HVClear(MemDim)
  /\ result = HVClear(MemDim)
  /\ bundler = BundlerReset(MemDim)

NextSelect ==
  \/ DoSelectBindBackend
  \/ DoSelectHammingBackend
  \/ DoReport

SpecSelect == InitSelect /\ [][NextSelect]_vars

(***************************************************************************)
(* The streaming encoders of encoding/encoders.hpp: RandomBasisEncoder,     *)
(* HashEncoder, UnaryIntensityEncoder and SequentialNGramEncoder.  mem      *)
(* holds the members of the encoder other than bundler_, which is bundler.  *)
(* history is the calls made since construction and stream the hypervectors *)
(* handed to bundler_.Accumulate since the last Reset.                      *)
(***************************************************************************)
MaxEncoderCalls == 4
EncoderDims == {5, 64}
EncoderKinds == {"RandomBasis", "Hash", "UnaryIntensity", "SequentialNGram"}
WindowInputs == {1, 2, 3}
EncoderSymbolInputs == {U64(1), U64(2)}
\* "" and "abc" in role 0, "abc" in role 1.
TokenRoleInputs == {<<<<>>, 0>>, <<<<97, 98, 99>>, 0>>, <<<<97, 98, 99>>, 1>>}
\* Intensities 0, 2 and 7, and SIZE_MAX.
IntensityInputs == {U64(0), U64(2), U64(7), AllOnes}
MaxIntensityInputs == {U64(3), AllOnes}

\* The members after the constructors, each of which ends with Reset().
RandomBasisInit(seed) == [seed_ |-> seed, step_ |-> 0]

HashInit(num_hashes, seed) == [k_ |-> num_hashes, seed_ |-> seed]

UnaryIntensityInit(max_intensity, D) ==
  [max_intensity_ |-> max_intensity, order_ |-> BuildOrder(D), phase_ |-> 0]

SequentialNGramInit(seed, Window) ==
  [seed_ |-> seed, head_ |-> 0, count_ |-> 0, Window |-> Window,
   history_ |-> [i \in 0..(Window - 1) |-> ZeroWord]]

\* void Reset(): the members afterwards (bundler_.Reset() is BundlerReset).
EncoderReset(k, m) ==
  IF k = "RandomBasis" THEN [m EXCEPT !.step_ = 0]
  ELSE IF k = "Hash" THEN m
  ELSE IF k = "UnaryIntensity" THEN [m EXCEPT !.phase_ = 0]
  ELSE [m EXCEPT !.head_ = 0, !.count_ = 0]

\* void RandomBasisEncoder::Update(symbol): the members, the hypervectors
\* accumulated and the bundler afterwards.
RandomBasisUpdate(m, b, symbol, D) ==
  LET hv == GenerateRandomHypervector(m.seed_, symbol, HVClear(D), D)
      acc == IF m.step_ # 0 THEN PermuteRotate(hv, m.step_, D) ELSE hv
  IN [mem |-> [m EXCEPT !.step_ = (m.step_ + 1) % D],
      accumulated |-> <<acc>>,
      bundler |-> BundlerAccumulate(b, acc, D)]

\* void HashEncoder::Update({token, role_index}).
HashUpdate(m, b, token_role, D) ==
  LET hv == HashEncoderEncodeToken(m.k_, m.seed_, token_role[1], token_role[2], D)
  IN [mem |-> m, accumulated |-> <<hv>>, bundler |-> BundlerAccumulate(b, hv, D)]

\* The loop of UnaryIntensityEncoder::Update: bit order_[(phase_ + bit_index) % Dim]
\* for every bit_index below both clamped and Dim.
UnaryBits(m, clamped, D) ==
  LET n == IF U64Gt(clamped, U64(D)) THEN D ELSE U64ToNat(clamped)
  IN HVOfBits(D, {m.order_[(m.phase_ + bit_index) % D] : bit_index \in 0..(n - 1)})

\* void UnaryIntensityEncoder::Update(intensity): intensity, max_intensity_ and
\* phase_ + clamped are std::size_t.
UnaryIntensityUpdate(m, b, intensity, D) ==
  LET clamped == IF U64Gt(intensity, m.max_intensity_) THEN m.max_intensity_ ELSE intensity
      hv == UnaryBits(m, clamped, D)
  IN [mem |-> [m EXCEPT !.phase_ = WordMod(WordAdd(U64(m.phase_), clamped), D)],
      accumulated |-> <<hv>>,
      bundler |-> BundlerAccumulate(b, hv, D)]

\* The aggregate loop of SequentialNGramEncoder::Update from offset on.
RECURSIVE NGramAggregate(_, _, _, _)
NGramAggregate(m, aggregate, offset, D) ==
  IF offset >= m.Window THEN aggregate
  ELSE LET idx == (m.head_ + m.Window - 1 - offset) % m.Window
           generated == GenerateRandomHypervector(m.seed_, m.history_[idx], HVClear(D), D)
           hv == IF offset # 0 THEN PermuteRotate(generated, offset, D) ELSE generated
       IN NGramAggregate(m, IF offset = 0 THEN hv ELSE Bind(aggregate, hv, D), offset + 1, D)

\* void SequentialNGramEncoder::Update(symbol).
SequentialNGramUpdate(m, b, symbol, D) ==
  LET stored == [m EXCEPT !.history_ = [@ EXCEPT ![m.head_] = symbol],
                          !.head_ = (m.head_ + 1) % m.Window]
  IN IF stored.count_ < stored.Window
       THEN [mem |-> [stored EXCEPT !.count_ = @ + 1], accumulated |-> <<>>, bundler |-> b]
       ELSE LET aggregate == NGramAggregate(stored, HVClear(D), 0, D)
            IN [mem |-> stored, accumulated |-> <<aggregate>>,
                bundler |-> BundlerAccumulate(b, aggregate, D)]

EncoderUnchanged == UNCHANGED <<kind, Capacity, dst, pc, Dim, in_a, in_b, env>>

DoEncoderReset ==
  /\ pc = "encoder" /\ nops < MaxEncoderCalls
  /\ history # <<>> /\ history[Len(history)].op # "Reset"
  /\ mem' = EncoderReset(kind, mem)
  /\ bundler' = BundlerReset(Dim)
  /\ stream' = <<>>
  /\ last' = [op |-> "Reset", ret |-> TRUE, before |-> mem]
  /\ history' = Append(history, [op |-> "Reset"])
  /\ nops' = nops + 1
  /\ UNCHANGED result
  /\ EncoderUnchanged

\* An Update(arg) that left the encoder as r says.
Updated(arg, r) ==
  /\ pc = "encoder" /\ nops < MaxEncoderCalls
  /\ mem' = r.mem
  /\ bundler' = r.bundler
  /\ stream' = stream \o r.accumulated
  /\ last' = [op |-> "Update", ret |-> TRUE, arg |-> arg, before |-> mem]
  /\ history' = Append(history, [op |-> "Update", arg |-> arg])
  /\ nops' = nops + 1
  /\ UNCHANGED result
  /\ EncoderUnchanged

DoRandomBasisUpdate ==
  /\ kind = "RandomBasis"
  /\ \E symbol \in EncoderSymbolInputs :
       Updated(symbol, RandomBasisUpdate(mem, bundler, symbol, Dim))

DoHashUpdate ==
  /\ kind = "Hash"
  /\ \E token_role \in TokenRoleInputs :
       Updated(token_role, HashUpdate(mem, bundler, token_role, Dim))

DoUnaryIntensityUpdate ==
  /\ kind = "UnaryIntensity"
  /\ \E intensity \in IntensityInputs :
       Updated(intensity, UnaryIntensityUpdate(mem, bundler, intensity, Dim))

DoSequentialNGramUpdate ==
  /\ kind = "SequentialNGram"
  /\ \E symbol \in EncoderSymbolInputs :
       Updated(symbol, SequentialNGramUpdate(mem, bundler, symbol, Dim))

\* A Finalize that also clears the bundler.
EncoderFinalizeResetting(b, out, D) ==
  [out |-> BundlerFinalize(b, out, D), bundler |-> BundlerReset(D)]

\* void Finalize(out) const { bundler_.Finalize(out); }: *out and bundler_
\* afterwards.
EncoderFinalize(b, out, D) ==
  [out |-> BundlerFinalize(b, out, D), bundler |-> b]

\* The out handed to Finalize, with bits set.
FinalizeOut == HVOfBits(Dim, {0, Dim - 1})

DoEncoderFinalize ==
  LET r == EncoderFinalize(bundler, FinalizeOut, Dim)
  IN /\ pc = "encoder"
     /\ result' = r.out
     /\ bundler' = r.bundler
     /\ last' = [op |-> "Finalize", ret |-> TRUE, before |-> mem]
     /\ UNCHANGED <<mem, stream, history, nops>>
     /\ EncoderUnchanged

InitEncoder ==
  /\ kind \in EncoderKinds
  /\ Dim \in EncoderDims
  /\ \/ kind = "RandomBasis" /\ \E seed \in SeedInputs : mem = RandomBasisInit(seed)
     \/ kind = "Hash"
          /\ \E num_hashes \in NumHashesInputs : mem = HashInit(num_hashes, kHashEncoderDefaultSeed)
     \/ kind = "UnaryIntensity"
          /\ \E max_intensity \in MaxIntensityInputs : mem = UnaryIntensityInit(max_intensity, Dim)
     \/ kind = "SequentialNGram"
          /\ \E Window \in WindowInputs : mem = SequentialNGramInit(kSequentialNGramDefaultSeed, Window)
  /\ bundler = BundlerReset(Dim)
  /\ stream = <<>>
  /\ history = <<>>
  /\ result = HVClear(Dim)
  /\ in_a = HVClear(Dim)
  /\ in_b = HVClear(Dim)
  /\ pc = "encoder"
  /\ nops = 0
  /\ last = NoCall
  /\ env = NoEnv
  /\ Capacity = 0
  /\ dst = Construct("proto", 0)

NextEncoder ==
  \/ DoEncoderReset
  \/ DoRandomBasisUpdate
  \/ DoHashUpdate
  \/ DoUnaryIntensityUpdate
  \/ DoSequentialNGramUpdate
  \/ DoEncoderFinalize

SpecEncoder == InitEncoder /\ [][NextEncoder]_vars

(***************************************************************************)
(* detail::BuildVanDerCorputOrder<Dim> (encoders.hpp) and                   *)
(* detail_numeric::BuildOrder<Dim> (numeric.hpp), which have the same body, *)
(* one pass of the second loop at a time.  mem is [order, used] and nops    *)
(* the loop index.                                                          *)
(***************************************************************************)
MaxOrderDim == 24
OrderDims == 1..MaxOrderDim

\* The first loop: order[index] = reversed_bits_value % Dim.
ReversedOrder(D) == [index \in 0..(D - 1) |-> ReverseBits(0, index, 0, D) % D]

OrderUnchanged ==
  UNCHANGED <<kind, Capacity, dst, stream, Dim, in_a, in_b, result, bundler, env, history>>

DoOrderStep ==
  /\ pc = "order" /\ nops < Dim
  /\ mem' = OrderStep(mem, nops, Dim)
  /\ nops' = nops + 1
  /\ last' = [op |-> "OrderStep", ret |-> TRUE, index |-> nops, before |-> mem]
  /\ UNCHANGED pc
  /\ OrderUnchanged

DoOrderReturn ==
  /\ pc = "order" /\ nops = Dim
  /\ pc' = "done"
  /\ last' = [op |-> "BuildOrder", ret |-> mem.order]
  /\ UNCHANGED <<mem, nops>>
  /\ OrderUnchanged

InitOrder ==
  /\ Dim \in OrderDims
  /\ mem = [order |-> ReversedOrder(Dim), used |-> {}]
  /\ nops = 0
  /\ pc = "order"
  /\ last = NoCall
  /\ history = <<>>
  /\ stream = <<>>
  /\ kind = "proto"
  /\ Capacity = 0
  /\ dst = Construct("proto", 0)
  /\ env = NoEnv
  /\ in_a = HVClear(Dim)
  /\ in_b = HVClear(Dim)
  /\ result = HVClear(Dim)
  /\ bundler = BundlerReset(Dim)

NextOrder ==
  \/ DoOrderStep
  \/ DoOrderReturn

\* The loops run to their end: each pass is taken as long as one is left.
SpecOrder == InitOrder /\ [][NextOrder]_vars /\ WF_vars(NextOrder)

(***************************************************************************)
(* Streams of Learn / Update calls with Classify and Finalize taken in      *)
(* between, on a PrototypeMemory, a ClusterMemory or a streaming encoder.   *)
(***************************************************************************)
InitStreaming ==
  \/ InitMem /\ kind \in {"proto", "cluster"}
  \/ InitEncoder

NextStreaming ==
  \/ DoLearn(LabelInputs, HVInputs, MaxOps)
  \/ DoUpdate(LabelInputs, HVInputs, MaxOps)
  \/ DoClassify
  \/ DoFinalize
  \/ NextEncoder

SpecStreaming == InitStreaming /\ [][NextStreaming]_vars

(***************************************************************************)
(* Properties of Learn, Insert and Update (under SpecMem).                 *)
(***************************************************************************)
\* C2: Learn and Insert on a full store (size = Capacity, also Capacity = 0)
\* return false and change nothing; below capacity they return true, write the
\* new entry at index size, add exactly 1 to size and keep entries [0, size);
\* size never exceeds Capacity and no call makes it smaller.
C2_LearnInsertRespectCapacity ==
  /\ kind \in {"proto", "cleanup"} => mem.size <= Capacity
  /\ last.op \in {"Learn", "Insert"} =>
       LET entry == IF last.op = "Learn" THEN [label |-> last.label, hv |-> last.hv]
                                         ELSE last.hv
       IN /\ mem.size >= last.pre.size
          /\ IF last.pre.size = Capacity
               THEN ~last.ret /\ mem = last.pre
               ELSE /\ last.ret
                    /\ mem.size = last.pre.size + 1
                    /\ mem.entries[last.pre.size] = entry
                    /\ \A i \in 0..(last.pre.size - 1) : mem.entries[i] = last.pre.entries[i]

\* A Learn refused by a full store of non-zero capacity.
C2_Witness ==
  /\ last.op = "Learn" /\ ~last.ret
  /\ Capacity = MaxCapacity /\ last.pre.size = Capacity

PrototypeContent(m) ==
  [size |-> m.size, entries |-> [i \in 0..(m.size - 1) |-> m.entries[i]]]

ClusterContent(m, D) ==
  [size |-> m.size,
   labels |-> [i \in 0..(m.size - 1) |-> m.labels[i]],
   counts |-> [i \in 0..(m.size - 1) |-> m.counts[i]],
   sums |-> [j \in 0..(m.size * D - 1) |-> m.sums[j]]]

Content(k, m) == IF k = "proto" THEN PrototypeContent(m) ELSE ClusterContent(m, MemDim)

\* The last call was a Load into the freshly constructed dst.
LoadedIntoEmpty == pc = "loaded" /\ ~last.call.mem_null /\ last.call.tgt = "dst"

\* Offset of the first byte after the body of the payload that was saved.
BodyEnd ==
  kHeaderSize + (IF kind = "proto" THEN Len(PrototypeBody(last.src, MemDim, last.src.size))
                                   ELSE Len(ClusterBody(last.src, MemDim)))

\* C1: whenever LoadPrototype / LoadCluster returns false, the destination is
\* as it was before the call: still empty, nothing written to it.
C1_FailedLoadLeavesDestinationUntouched ==
  (LoadedIntoEmpty /\ ~last.ret) => (dst = last.pre /\ dst.size = 0)

\* C4: a Load into a non-empty (or null) destination returns false, reads
\* nothing and changes nothing; LoadRaw returns false and changes nothing when
\* size # 0, a pointer is null or num_items > Capacity, and otherwise copies
\* exactly num_items labels, counts and num_items * Dim sums and sets size.
C4_PreconditionViolationsChangeNothing ==
  /\ (pc = "loaded" /\ (last.call.mem_null \/ last.pre.size # 0)) =>
       /\ ~last.ret
       /\ last.s = last.given
       /\ mem = last.src
       /\ dst = Construct(kind, Capacity)
  /\ last.op = "LoadRaw" =>
       LET a == last.args
           n == a.num_items
       IN IF \/ last.pre.size # 0
             \/ a.labels.null \/ a.label_counts.null \/ a.bit_sums.null
             \/ n > Capacity
            THEN ~last.ret /\ mem = last.pre
            ELSE /\ last.ret
                 /\ mem.size = n
                 /\ \A i \in 0..(Capacity - 1) :
                      /\ mem.labels[i] = IF i < n THEN a.labels.at[i] ELSE last.pre.labels[i]
                      /\ mem.counts[i] = IF i < n THEN a.label_counts.at[i]
                                                  ELSE last.pre.counts[i]
                 /\ \A j \in 0..(Capacity * MemDim - 1) :
                      mem.sums[j] = IF j < n * MemDim THEN a.bit_sums.at[j] ELSE last.pre.sums[j]

\* A Load of an intact payload into the non-empty memory it was saved from.
C4_Witness ==
  /\ pc = "loaded" /\ ~last.call.mem_null /\ last.call.tgt = "mem"
  /\ last.pre.size = MaxCapacity /\ ~last.ret

\* C5: saving a memory and loading the bytes into an empty memory of the same
\* Dim and Capacity succeeds, gives the same size and rows, and saving the
\* loaded memory gives the same bytes again.
C5_RoundTrip ==
  (LoadedIntoEmpty /\ last.call.tamper = NoTamper /\ ~last.write_v1) =>
    /\ last.ret
    /\ Content(kind, dst) = Content(kind, last.src)
    /\ Save(kind, dst, Capacity, FALSE) = stream

\* C6: a v1 payload (no trailer) loads, gives the state that loading the v1.1
\* payload of the same content gives, and re-saves to the bytes of a fresh
\* v1.1 save of that content.
C6_V1LoadsLikeV11 ==
  (LoadedIntoEmpty /\ last.call.tamper = NoTamper /\ last.write_v1) =>
    /\ last.ret
    /\ dst = Load(kind, [last.given EXCEPT !.bytes = Save(kind, last.src, Capacity, FALSE)],
                  last.pre, Capacity, FALSE, last.call.empty_data_null).mem
    /\ Save(kind, dst, Capacity, FALSE) = Save(kind, last.src, Capacity, FALSE)

C8_TrailerRule ==
  (/\ LoadedIntoEmpty
   /\ last.call.tamper.how = "none" \/ last.call.tamper.at >= BodyEnd) =>
    LET b == last.given.bytes
        tag == Len(b) >= BodyEnd + 4 /\ SubSeq(b, BodyEnd + 1, BodyEnd + 4) = kTrailerTag
        crc_follows ==
          /\ Len(b) >= BodyEnd + 8
          /\ SubSeq(b, BodyEnd + 5, BodyEnd + 8)
               = CrcXor(Crc32Update(kCrcInit, SubSeq(b, kHeaderSize + 1, BodyEnd)), kCrcInit)
    IN IF last.call.seekable
         THEN /\ (last.ret /\ tag) => crc_follows
              /\ (last.ret /\ ~tag) => last.s.pos = BodyEnd
         ELSE last.s.pos <= BodyEnd

(***************************************************************************)
(* Properties of the hypervector operations (under SpecOps).               *)
(***************************************************************************)
\* C9: an operation whose hypervector inputs have no bit at an index >= Dim
\* writes a hypervector with no bit at an index >= Dim (Bind,
\* BundlePairMajority, PermuteRotate, EncodeId, EncodeToken,
\* GenerateRandomHypervector, HashEncoder.EncodeToken, ThermometerEncoder.Encode,
\* ClusterMemory.Finalize, and BinaryBundler.Finalize into such an output).
C9_OutputsHaveZeroTail ==
  (pc = "done" /\ \A k \in 1..Len(last.inputs) : ZeroTail(Dim, last.inputs[k]))
    => ZeroTail(Dim, result)

\* A rotation by one that moves the last bit of a 70-bit input out of range.
C9_Witness ==
  /\ pc = "done" /\ last.op = "PermuteRotate" /\ Dim = 70
  /\ last.rotate_by = 1 /\ last.inputs[1] = HVOfBits(70, {69})
  /\ ZeroTail(Dim, result)

\* C10: PermuteRotate of a zero-tail input into a distinct output is a left
\* rotation over exactly Dim bits: output bit (i + k) mod Dim is input bit i,
\* so the output has as many set bits as the input.
C10_RotateOverDimBits ==
  (pc = "done" /\ last.op = "PermuteRotate" /\ ZeroTail(Dim, last.inputs[1])) =>
    /\ \A i \in 0..(Dim - 1) :
         GetBit(result, (i + last.rotate_by) % Dim) = GetBit(last.inputs[1], i)
    /\ HammingDistance(result, HVClear(Dim), Dim)
         = HammingDistance(last.inputs[1], HVClear(Dim), Dim)

\* C11: for zero-tail x and distinct buffers, PermuteRotate(x, 0) = x,
\* PermuteRotate(x, Dim) = x, and rotating by a and then by b gives
\* PermuteRotate(x, (a + b) mod Dim).
C11_PermutationIdentities ==
  /\ (pc = "done" /\ last.op = "PermuteRotate" /\ ZeroTail(Dim, last.inputs[1])
       /\ last.rotate_by \in {0, Dim}) => result = last.inputs[1]
  /\ (pc = "done2" /\ last.op = "PermuteRotateAgain" /\ ZeroTail(Dim, last.inputs[1])) =>
       result = PermuteRotate(last.inputs[1], (last.rotate_by + last.rotate_again) % Dim, Dim)

(***************************************************************************)
(* Properties of the backend policy (under SpecPolicy).                    *)
(***************************************************************************)
\* Whether feature is in the mask m, by division.
InMask(m, feature) == (m \div feature) % 2 = 1

\* C12: unless scalar is forced, the Hamming decision is SSE2 when AVX2 and
\* SSE2 are both in the mask and D >= threshold, otherwise AVX2, SSE2, NEON or
\* Scalar in that order of availability; the Bind decision is the same without
\* the threshold; forced scalar gives Scalar; a backend whose bit is absent
\* from the mask is never chosen.
C12_DispatchPolicy ==
  last.op \in {"DecideBind", "DecideHamming"} =>
    LET m == last.feature_mask
        large == /\ last.op = "DecideHamming"
                 /\ ~U64Gt(GetHammingThreshold(last.env), U64(last.dim_bits))
        expected ==
          IF last.force_scalar THEN "Scalar"
          ELSE IF InMask(m, CpuFeatureAVX2) /\ InMask(m, CpuFeatureSSE2) /\ large THEN "SSE2"
          ELSE IF InMask(m, CpuFeatureAVX2) THEN "AVX2"
          ELSE IF InMask(m, CpuFeatureSSE2) THEN "SSE2"
          ELSE IF InMask(m, CpuFeatureNEON) THEN "NEON"
          ELSE "Scalar"
    IN /\ last.ret = expected
       /\ last.ret = "SSE2" => InMask(m, CpuFeatureSSE2)
       /\ last.ret = "AVX2" => InMask(m, CpuFeatureAVX2)
       /\ last.ret = "NEON" => InMask(m, CpuFeatureNEON)

\* A Hamming decision at exactly the threshold "42" with SSE2 and AVX2 present.
C12_Witness ==
  /\ last.op = "DecideHamming" /\ last.ret = "SSE2" /\ ~last.force_scalar
  /\ last.env = Env(<<52, 50>>) /\ last.dim_bits = 42 /\ last.feature_mask = 3

\* The digits of a text, after leading white space and one plus sign.
DecimalDigits(str) ==
  LET i == SkipSpace(str, 1)
      first == IF i <= Len(str) /\ str[i] = 43 THEN i + 1 ELSE i
  IN SubSeq(str, first, Len(str))

\* The text writes a positive base-10 integer: one or more decimal digits, not
\* all of them 0 (leading white space and a plus sign are let through).
IsPositiveDecimal(e) ==
  /\ e.set
  /\ DecimalDigits(e.value) # <<>>
  /\ \A k \in 1..Len(DecimalDigits(e.value)) : IsDigit(DecimalDigits(e.value)[k])
  /\ \E k \in 1..Len(DecimalDigits(e.value)) : DecimalDigits(e.value)[k] # 48

\* The number a text of at most 9 decimal digits writes.
RECURSIVE DecimalNat(_, _)
DecimalNat(str, n) ==
  IF n = 0 THEN 0 ELSE 10 * DecimalNat(str, n - 1) + (str[n] - 48)

\* C13: GetHammingThreshold returns the environment value exactly when it is a
\* positive base-10 integer and 16384 otherwise; HammingThresholdOverridden is
\* true exactly when the environment value is the one returned.  Each call
\* reads the environment as it is at the call.
C13_ThresholdFromEnvironment ==
  /\ last.op = "GetHammingThreshold" =>
       IF IsPositiveDecimal(last.env)
         THEN Len(DecimalDigits(last.env.value)) <= 9 =>
                last.ret = U64(DecimalNat(DecimalDigits(last.env.value),
                                          Len(DecimalDigits(last.env.value))))
         ELSE last.ret = U64(kHammingPreferSSE2DimThreshold)
  /\ last.op = "HammingThresholdOverridden" => (last.ret <=> IsPositiveDecimal(last.env))
  /\ last.op \in {"GetHammingThreshold", "HammingThresholdOverridden"} => last.env = env

(***************************************************************************)
(* Properties of the SIMD backends (under SpecBackend).                    *)
(***************************************************************************)
\* The scalar sum of per-word popcounts of a XOR b over the words below n.
RECURSIVE ScalarPopcountSum(_, _, _)
ScalarPopcountSum(a, b, n) ==
  IF n = 0 THEN 0
  ELSE ScalarPopcountSum(a, b, n - 1) + Cardinality({i \in 0..(kWordBits - 1) :
                                                      WordBit(a[n - 1], i) # WordBit(b[n - 1], i)})

\* C14: for every N >= 1, also when N is no multiple of the lane width, the
\* SSE2, AVX2 and NEON BindWords write exactly a[w] XOR b[w] to every word,
\* their HammingWords return the scalar popcount sum, and the vector loop and
\* the scalar tail together process every index in [0, N) exactly once.
C14_BackendsAgreeWithScalar ==
  pc = "done" /\ last.op \in {"BindWords", "HammingWords"} =>
    /\ \A w \in DOMAIN in_a : last.touched[w] = 1
    /\ last.op = "BindWords" => \A w \in DOMAIN in_a : result[w] = WordXor(in_a[w], in_b[w])
    /\ last.op = "HammingWords" =>
         last.ret = ScalarPopcountSum(in_a, in_b, Cardinality(DOMAIN in_a))

\* AVX2 on 7 words: one pass of the vector loop and a tail of 3.
C14_Witness ==
  /\ pc = "done" /\ last.backend = "AVX2" /\ last.op = "HammingWords"
  /\ Cardinality(DOMAIN in_a) = 7 /\ in_a # in_b /\ last.ret > 0

(***************************************************************************)
(* Properties of Bind and HammingDistance.                                 *)
(***************************************************************************)
\* C15: Bind(Bind(x, k), k) = x word for word, for all x and k, and
\* Bind(x, x) is all-zero (under SpecOps).
C15_BindInvolution ==
  /\ (pc = "done2" /\ last.op = "BindAgain") => result = last.inputs[1]
  /\ (pc = "done" /\ last.op = "Bind" /\ last.inputs[1] = last.inputs[2]) =>
       result = HVClear(Dim)

\* x bound with a different key that has bits beyond the dimension, and bound
\* again.
C15_Witness ==
  /\ pc = "done2" /\ last.op = "BindAgain"
  /\ last.inputs[1] # last.inputs[2] /\ last.first # last.inputs[1]
  /\ ~ZeroTail(Dim, last.inputs[2])

\* C16: on zero-tail hypervectors HammingDistance is a metric: d(x, y) = d(y, x),
\* d(x, y) = 0 exactly when x = y, d(x, z) <= d(x, y) + d(y, z), and
\* 0 <= d(x, y) <= Dim (under SpecMetric).
C16_HammingIsMetric ==
  LET Calls == {i \in 1..Len(history) :
                  /\ ZeroTail(Dim, history[i].inputs[1])
                  /\ ZeroTail(Dim, history[i].inputs[2])}
  IN /\ \A i \in Calls :
          /\ 0 <= history[i].ret /\ history[i].ret <= Dim
          /\ history[i].ret = 0 <=> history[i].inputs[1] = history[i].inputs[2]
     /\ \A i, j \in Calls :
          (/\ history[i].inputs[1] = history[j].inputs[2]
           /\ history[i].inputs[2] = history[j].inputs[1]) => history[i].ret = history[j].ret
     /\ \A i, j, k \in Calls :
          (/\ history[i].inputs[2] = history[j].inputs[1]
           /\ history[k].inputs[1] = history[i].inputs[1]
           /\ history[k].inputs[2] = history[j].inputs[2]) =>
            history[k].ret <= history[i].ret + history[j].ret

\* d(x, y), d(y, z) and d(x, z) on three different zero-tail hypervectors of 70 bits.
C16_Witness ==
  /\ pc = "metric" /\ Len(history) = 3 /\ Dim = 70
  /\ history[1].inputs = <<in_a, in_b>> /\ history[2].inputs = <<in_b, result>>
  /\ history[3].inputs = <<in_a, result>>
  /\ in_a # in_b /\ in_b # result /\ in_a # result
  /\ ZeroTail(Dim, in_a) /\ ZeroTail(Dim, in_b)
  /\ history[3].ret < history[1].ret + history[2].ret

(***************************************************************************)
(* Properties of BinaryBundler (under SpecBundler).                        *)
(***************************************************************************)
\* Every run since the last Reset accumulated the hypervector hv.
OnlyAccumulated(hv) ==
  history # <<>> /\ \A r \in 1..Len(history) : history[r].inputs[1] = hv

\* C17: after Reset and any Accumulate calls every counter lies in
\* [-32768, 32767]; an increment at the maximum and a decrement at the minimum
\* leave the counter as it is; Finalize sets bit i exactly when
\* counter[i] >= 0; so Reset then Finalize gives all ones, the all-ones
\* vector accumulated n >= 1 times gives all ones, and the all-zero vector
\* accumulated n >= 1 times gives all zeros.
C17_BundlerSaturation ==
  /\ \A i \in 0..(Dim - 1) : -32768 <= bundler[i] /\ bundler[i] <= 32767
  /\ (last.op = "Accumulate" /\ last.times = 1) =>
       \A i \in 0..(Dim - 1) :
         /\ (GetBit(last.inputs[1], i) /\ last.before[i] = 32767) => bundler[i] = 32767
         /\ (~GetBit(last.inputs[1], i) /\ last.before[i] = -32768) => bundler[i] = -32768
  /\ last.op = "Finalize" =>
       /\ \A i \in 0..(Dim - 1) : GetBit(result, i) <=> bundler[i] >= 0
       /\ history = <<>> => \A i \in 0..(Dim - 1) : GetBit(result, i)
       /\ OnlyAccumulated(HVOfBits(Dim, 0..(Dim - 1))) => \A i \in 0..(Dim - 1) : GetBit(result, i)
       /\ OnlyAccumulated(HVOfBits(Dim, {})) => \A i \in 0..(Dim - 1) : ~GetBit(result, i)

\* The all-ones vector accumulated 32768 times and once more, then Finalize.
C17_Witness ==
  /\ pc = "done" /\ last.op = "Finalize" /\ Len(history) = 2
  /\ OnlyAccumulated(HVOfBits(Dim, 0..(Dim - 1)))
  /\ history[1].times = 32768 /\ history[2].times = 1
  /\ bundler[0] = 32767

\* counters_ after Reset and the first n runs of runs.
RECURSIVE ReplayRuns(_, _, _)
ReplayRuns(runs, n, D) ==
  IF n = 0 THEN BundlerReset(D)
  ELSE BundlerAccumulateTimes(ReplayRuns(runs, n - 1, D), runs[n].inputs[1], D, runs[n].times)

\* The runs in every order.
Reorderings(runs) ==
  {[i \in 1..Len(runs) |-> runs[p[i]]] : p \in Permutations(1..Len(runs))}

\* The number of Accumulate calls in the first n runs.
RECURSIVE TotalTimes(_, _)
TotalTimes(runs, n) == IF n = 0 THEN 0 ELSE TotalTimes(runs, n - 1) + runs[n].times

\* Finalize gave what it gives after the same calls in any other order.
SameInEveryOrder ==
  last.op = "Finalize" =>
    \A r \in Reorderings(history) :
      BundlerFinalize(ReplayRuns(r, Len(r), Dim), last.inputs[1], Dim) = result

\* One vector accumulated once is what Finalize gives, bit for bit.
SingleVectorReturned ==
  (last.op = "Finalize" /\ Len(history) = 1 /\ history[1].times = 1) =>
    \A i \in 0..(Dim - 1) : GetBit(result, i) <=> GetBit(history[1].inputs[1], i)

LowestNearest(hvs, size, query) ==
  CHOOSE i \in 0..(size - 1) :
    /\ \A j \in 0..(size - 1) :
         HammingDistance(query, hvs[i], MemDim) <= HammingDistance(query, hvs[j], MemDim)
    /\ \A j \in 0..(i - 1) :
         HammingDistance(query, hvs[j], MemDim) > HammingDistance(query, hvs[i], MemDim)

\* C19: on a non-empty store Classify returns the label of, and Restore a copy
\* of, the lowest-index entry with the least HammingDistance to the query; on
\* an empty store they return default_label and the fallback; neither changes
\* the store.
C19_NearestNeighbour ==
  /\ last.op = "Classify" =>
       /\ mem = last.before
       /\ last.ret = IF mem.size = 0 THEN last.default_label
                     ELSE mem.entries[LowestNearest([i \in DOMAIN mem.entries |->
                                                       mem.entries[i].hv],
                                                    mem.size, last.inputs[1])].label
  /\ last.op = "Restore" =>
       /\ mem = last.before
       /\ last.ret = IF mem.size = 0 THEN last.fallback
                     ELSE mem.entries[LowestNearest(mem.entries, mem.size, last.inputs[1])]

(***************************************************************************)
(* Properties of ClusterMemory counters (under SpecMem).                   *)
(***************************************************************************)
\* The labels of the successful Updates among the first n calls, each once,
\* in the order they were first seen.
RECURSIVE FirstSeen(_, _)
FirstSeen(calls, n) ==
  IF n = 0 THEN <<>>
  ELSE LET seen == FirstSeen(calls, n - 1)
       IN IF calls[n].ret /\ \A k \in 1..Len(seen) : seen[k] # calls[n].label
            THEN Append(seen, calls[n].label)
            ELSE seen

\* The successful Updates with the label.
UpdatesOf(label) == {k \in 1..Len(history) : history[k].ret /\ history[k].label = label}

\* C20: in every state reached from the empty ClusterMemory by Update calls
\* only, labels[0..size) are pairwise distinct and in first-seen order,
\* counts[i] is the number of successful Updates with labels[i],
\* sums[i * Dim + b] is the number of those with bit b set minus the number with
\* it clear (so within [-counts[i], counts[i]] and of the same parity), and
\* every row at an index >= size is all zero.
C20_ClusterCounters ==
  (kind = "cluster" /\ pc = "build"
     /\ \A k \in 1..Len(history) : history[k].op = "Update") =>
    /\ mem.size = Len(FirstSeen(history, Len(history)))
    /\ \A i \in 0..(mem.size - 1) :
         /\ mem.labels[i] = FirstSeen(history, Len(history))[i + 1]
         /\ \A j \in 0..(mem.size - 1) : i # j => mem.labels[i] # mem.labels[j]
         /\ mem.counts[i] = Cardinality(UpdatesOf(mem.labels[i]))
         /\ \A b \in 0..(MemDim - 1) :
              /\ mem.sums[i * MemDim + b] =
                   Cardinality({k \in UpdatesOf(mem.labels[i]) : GetBit(history[k].hv, b)})
                   - Cardinality({k \in UpdatesOf(mem.labels[i]) : ~GetBit(history[k].hv, b)})
              /\ -mem.counts[i] <= mem.sums[i * MemDim + b]
              /\ mem.sums[i * MemDim + b] <= mem.counts[i]
              /\ (mem.counts[i] - mem.sums[i * MemDim + b]) % 2 = 0
    /\ \A i \in mem.size..(Capacity - 1) :
         /\ mem.labels[i] = ZeroWord
         /\ mem.counts[i] = 0
         /\ \A b \in 0..(MemDim - 1) : mem.sums[i * MemDim + b] = 0

\* Two labels learned, the first one twice with different hypervectors, and a
\* row left unused.
C20_Witness ==
  /\ kind = "cluster" /\ pc = "build" /\ Len(history) = 3 /\ Capacity = 2
  /\ \A k \in 1..3 : history[k].op = "Update" /\ history[k].ret
  /\ history[1].label = history[3].label /\ history[1].hv # history[3].hv
  /\ history[2].label # history[1].label
  /\ mem.size = 2 /\ mem.counts[0] = 2

(***************************************************************************)
(* Properties of ClusterMemory::Finalize and ApplyDecay.                   *)
(***************************************************************************)
\* The rows in use that hold the label.
RowsOf(m, label) == {i \in 0..(m.size - 1) : m.labels[i] = label}

\* The lowest of a non-empty set of rows.
LowestRow(rows) == CHOOSE i \in rows : \A j \in rows : i <= j

TruncatedProduct(v, num, den) ==
  IF v * num >= 0 THEN (v * num) \div den ELSE -((-(v * num)) \div den)

\* Only Update and ApplyDecay have been called on the memory.
OnlyUpdateAndDecay == \A k \in 1..Len(history) : history[k].op \in {"Update", "ApplyDecay"}

\* Every counter of a row in use lies within the row's count.
SumsWithinCounts ==
  \A i \in 0..(mem.size - 1), b \in 0..(MemDim - 1) :
    /\ mem.sums[i * MemDim + b] <= mem.counts[i]
    /\ -mem.sums[i * MemDim + b] <= mem.counts[i]

\* C22: ApplyDecay(f) changes nothing when f < 0 or f > 1; for f in [0, 1] every
\* sum and every count of the rows in use becomes value * f truncated toward
\* zero, while labels, size and the rows beyond size stay; and after any sequence
\* of Update and ApplyDecay every |sums[i * Dim + b]| is at most counts[i]
\* (under SpecMem).
C22_ApplyDecay ==
  /\ last.op = "ApplyDecay" =>
       LET num == last.factor[1]
           den == last.factor[2]
           pre == last.pre
       IN IF num < 0 \/ num > den
            THEN mem = pre
            ELSE /\ mem.labels = pre.labels /\ mem.size = pre.size
                 /\ \A i \in DOMAIN pre.counts :
                      mem.counts[i] = IF i < pre.size THEN TruncatedProduct(pre.counts[i], num, den)
                                                      ELSE pre.counts[i]
                 /\ \A j \in DOMAIN pre.sums :
                      mem.sums[j] = IF j \div MemDim < pre.size
                                      THEN TruncatedProduct(pre.sums[j], num, den)
                                      ELSE pre.sums[j]
  /\ (kind = "cluster" /\ OnlyUpdateAndDecay) => SumsWithinCounts

(***************************************************************************)
(* Properties of the streaming encoders (under SpecEncoder).               *)
(***************************************************************************)
\* The arguments of the Update calls made since the last Reset (or since
\* construction), oldest first.
UpdatesSinceReset ==
  LET resets == {i \in 1..Len(history) : history[i].op = "Reset"}
      start == IF resets = {} THEN 0 ELSE CHOOSE i \in resets : \A j \in resets : j <= i
  IN [i \in 1..(Len(history) - start) |-> history[start + i].arg]

\* XOR over the offsets from o up to Window - 1 of the hypervector of the symbol
\* o places before position t of symbols, rotated left by o.
RECURSIVE NGramOf(_, _, _, _, _, _)
NGramOf(seed, symbols, t, o, Window, D) ==
  LET hv == PermuteRotate(GenerateRandomHypervector(seed, symbols[t - o], HVClear(D), D), o, D)
  IN IF o = Window - 1 THEN hv
     ELSE Bind(hv, NGramOf(seed, symbols, t, o + 1, Window, D), D)

\* C23: a SequentialNGramEncoder accumulates an aggregate exactly when at least
\* Window symbols have been seen since Reset, so that after n >= Window Updates
\* n - Window + 1 aggregates have been accumulated (none before), and the j-th
\* aggregate is the n-gram that ends with symbol Window - 1 + j.
C23_NGramWindow ==
  kind = "SequentialNGram" =>
    LET symbols == UpdatesSinceReset
        n == Len(symbols)
        Window == mem.Window
    IN /\ Len(stream) = IF n >= Window THEN n - Window + 1 ELSE 0
       /\ \A j \in 1..Len(stream) :
            stream[j] = NGramOf(mem.seed_, symbols, Window - 1 + j, 0, Window, Dim)

\* The probe position (hash1 + i * hash2) % Dim of HashEncoder::EncodeToken.
ProbePosition(token, i) ==
  LET hashes == DoubleHash(token, mem.seed_)
  IN WordMod(WordAdd(hashes[1], WordMul(U64(i), hashes[2])), Dim)

\* C24: EncodeToken sets exactly k bits: the k probe positions are pairwise
\* distinct, the rotation by the role keeps the bit count, and the output for
\* role r is PermuteRotate by r of the output for role 0 (0 <= k <= Dim).
C24_HashEncoderSetsKBits ==
  (kind = "Hash" /\ mem.k_ <= Dim) =>
    \A j \in 1..Len(stream) :
      LET token == UpdatesSinceReset[j][1]
          role_index == UpdatesSinceReset[j][2]
          base == HashEncoderEncodeToken(mem.k_, mem.seed_, token, 0, Dim)
      IN /\ Cardinality(HVBits(Dim, stream[j])) = mem.k_
         /\ \A i1, i2 \in 0..(mem.k_ - 1) :
              i1 # i2 => ProbePosition(token, i1) # ProbePosition(token, i2)
         /\ Cardinality(HVBits(Dim, stream[j])) = Cardinality(HVBits(Dim, base))
         /\ stream[j] = PermuteRotate(base, role_index, Dim)

(***************************************************************************)
(* Streaming (under SpecStreaming).                                        *)
(***************************************************************************)
\* The memory m after the Learn / Update calls h[i], h[i + 1], ... in order.
RECURSIVE ReplayMemory(_, _, _)
ReplayMemory(m, h, i) ==
  IF i > Len(h) THEN m
  ELSE ReplayMemory(IF h[i].op = "Learn" THEN Learn(m, Capacity, h[i].label, h[i].hv).mem
                    ELSE Update(m, MemDim, Capacity, h[i].label, h[i].hv).mem,
                    h, i + 1)

\* Update(arg) of the encoder at hand.
EncoderUpdate(m, b, arg) ==
  IF kind = "RandomBasis" THEN RandomBasisUpdate(m, b, arg, Dim)
  ELSE IF kind = "Hash" THEN HashUpdate(m, b, arg, Dim)
  ELSE IF kind = "UnaryIntensity" THEN UnaryIntensityUpdate(m, b, arg, Dim)
  ELSE SequentialNGramUpdate(m, b, arg, Dim)

\* The members and the bundler of an encoder after the Update / Reset calls
\* h[i], h[i + 1], ... in order.
RECURSIVE ReplayEncoder(_, _, _, _)
ReplayEncoder(m, b, h, i) ==
  IF i > Len(h) THEN [mem |-> m, bundler |-> b]
  ELSE IF h[i].op = "Reset" THEN ReplayEncoder(EncoderReset(kind, m), BundlerReset(Dim), h, i + 1)
  ELSE LET r == EncoderUpdate(m, b, h[i].arg)
       IN ReplayEncoder(r.mem, r.bundler, h, i + 1)

\* The encoder as constructed, with the configuration mem has.
FreshEncoder ==
  IF kind = "RandomBasis" THEN RandomBasisInit(mem.seed_)
  ELSE IF kind = "Hash" THEN HashInit(mem.k_, mem.seed_)
  ELSE IF kind = "UnaryIntensity" THEN [mem EXCEPT !.phase_ = 0]
  ELSE SequentialNGramInit(mem.seed_, mem.Window)

\* C25: the state of a PrototypeMemory, a ClusterMemory or a streaming encoder,
\* and what a Classify or Finalize taken at any point returns, are those of the
\* Learn / Update calls made so far applied one after the other to the object as
\* constructed, however many Classify and Finalize calls were made in between
\* and wherever the caller cut the stream into chunks.
C25_ChunkingInvariance ==
  /\ pc = "build" =>
       LET replayed == ReplayMemory(Construct(kind, Capacity), history, 1)
       IN /\ mem = replayed
          /\ last.op = "Finalize" =>
               last.ret = ClusterFinalize(replayed, MemDim, last.label, last.inputs[1])
          /\ last.op = "Classify" =>
               last.ret = Classify(replayed, MemDim, last.inputs[1], last.default_label)
  /\ pc = "encoder" =>
       LET replayed == ReplayEncoder(FreshEncoder, BundlerReset(Dim), history, 1)
       IN /\ mem = replayed.mem
          /\ bundler = replayed.bundler
          /\ last.op = "Finalize" => result = BundlerFinalize(replayed.bundler, FinalizeOut, Dim)

\* An encoder updated again after a Finalize was taken, with a vote that is
\* neither all ones nor all zeros.
C25_Witness ==
  /\ pc = "encoder" /\ last.op = "Update" /\ Len(history) >= 3
  /\ result # HVClear(Dim)
  /\ \E i, j \in 0..(Dim - 1) : bundler[i] >= 0 /\ bundler[j] < 0

(***************************************************************************)
(* The low-discrepancy order (under SpecOrder).                            *)
(***************************************************************************)
\* The entries of order fixed so far are distinct indices below Dim, and used
\* holds exactly them.
OrderPrefixDistinct ==
  /\ \A i \in 0..(nops - 1) : mem.order[i] \in 0..(Dim - 1)
  /\ \A i, j \in 0..(nops - 1) : i # j => mem.order[i] # mem.order[j]
  /\ mem.used = {mem.order[i] : i \in 0..(nops - 1)}

\* A pass keeps an entry that is not used yet and replaces a used one by the
\* smallest index that is not used, found without leaving 0..Dim - 1.
OrderStepReplaces ==
  last.op = "OrderStep" =>
    LET was == last.before.order[last.index]
        free == (0..(Dim - 1)) \ last.before.used
    IN /\ free # {}
       /\ mem.order[last.index] =
            IF was \in last.before.used THEN CHOOSE i \in free : \A j \in free : i <= j
            ELSE was

\* What is returned is a permutation of 0..Dim - 1, the one BuildOrder gives.
OrderReturned ==
  pc = "done" =>
    /\ {last.ret[i] : i \in 0..(Dim - 1)} = 0..(Dim - 1)
    /\ last.ret = BuildOrder(Dim)

\* C26: BuildVanDerCorputOrder<Dim> and BuildOrder<Dim> terminate and return a
\* permutation of [0, Dim) for every Dim >= 1: the scan for an unused index
\* never moves past Dim - 1, and an entry that collides is replaced by the
\* smallest unused index.
C26_OrderIsPermutation ==
  /\ [](OrderPrefixDistinct /\ OrderStepReplaces /\ OrderReturned)
  /\ <>(pc = "done")

\* An order returned in which an entry had collided and was replaced.
C26_Witness ==
  /\ pc = "done" /\ Dim > 2
  /\ \E i \in 0..(Dim - 1) : last.ret[i] # ReversedOrder(Dim)[i]

(***************************************************************************)
(* The report and the selection (under SpecSelect).                        *)
(***************************************************************************)
\* C27: for every feature mask, dimension and target architecture,
\* Report<Dim>(m).bind_kind names the backend whose function
\* SelectBindBackend<Dim>(m) returns, and Report<Dim>(m).hamming_kind the one
\* whose function SelectHammingBackend<Dim>(m) returns.
C27_ReportNamesSelection ==
  /\ last.op = "SelectBindBackend" =>
       last.ret = Report(mem, last.dim_bits, last.feature_mask, env).bind_kind
  /\ last.op = "SelectHammingBackend" =>
       last.ret = Report(mem, last.dim_bits, last.feature_mask, env).hamming_kind

(***************************************************************************)
(* The tail of what a PrototypeMemory stores (under SpecReader).           *)
(***************************************************************************)
\* C28: in a PrototypeMemory whose dimension is no multiple of 64 every stored
\* hypervector has only zero bits at the indices >= Dim, also after
\* LoadPrototype returned true on a payload it accepts; so no entry is farther
\* than Dim from a query with a zero tail, and Dim - dist in Classify does not
\* wrap.
C28_StoredTailsZero ==
  (kind = "proto" /\ pc = "build") =>
    /\ \A i \in 0..(mem.size - 1) : ZeroTail(MemDim, mem.entries[i].hv)
    /\ (last.op = "Classify" /\ ZeroTail(MemDim, last.inputs[1])) =>
         \A i \in 0..(mem.size - 1) :
           HammingDistance(last.inputs[1], mem.entries[i].hv, MemDim) <= MemDim

\* C29: PermuteRotate may be used in place: for a dimension of more than one
\* word and any rotate amount, PermuteRotate(x, k, &x) leaves x equal to what
\* PermuteRotate(x, k, &y) writes into a distinct output y.
C29_PermuteRotateInPlace ==
  (pc = "done" /\ last.op = "PermuteRotateInPlace" /\ WordCount(Dim) > 1)
    => result = PermuteRotate(last.inputs[1], last.rotate_by, Dim)

(***************************************************************************)
(* Reset of the streaming encoders (under SpecEncoder).                    *)
(***************************************************************************)
\* The Update calls made since the last Reset, applied to the encoder as
\* constructed.
FreshReplay ==
  LET u == UpdatesSinceReset
  IN ReplayEncoder(FreshEncoder, BundlerReset(Dim),
                   [i \in 1..Len(u) |-> [op |-> "Update", arg |-> u[i]]], 1)

\* The encoder cannot be told from a fresh one that received the Updates made
\* since the last Reset: same counters, step, phase, head and count, and the
\* same Finalize output.
ResetRestores ==
  /\ bundler = FreshReplay.bundler
  /\ kind = "RandomBasis" => mem.step_ = FreshReplay.mem.step_
  /\ kind = "UnaryIntensity" => mem.phase_ = FreshReplay.mem.phase_
  /\ kind = "SequentialNGram" =>
       mem.head_ = FreshReplay.mem.head_ /\ mem.count_ = FreshReplay.mem.count_
  /\ last.op = "Reset" =>
       /\ bundler = [i \in 0..(Dim - 1) |-> 0]
       /\ kind = "RandomBasis" => mem.step_ = 0
       /\ kind = "UnaryIntensity" => mem.phase_ = 0
       /\ kind = "SequentialNGram" => mem.head_ = 0 /\ mem.count_ = 0
  /\ last.op = "Finalize" => result = BundlerFinalize(FreshReplay.bundler, FinalizeOut, Dim)

\* min(intensity, max_intensity) mod D, of 64-bit operands.
MinIntensityMod(intensity, max_intensity, D) ==
  WordMod(IF U64Gt(intensity, max_intensity) THEN max_intensity ELSE intensity, D)

\* An Update moved step to (step + 1) mod D and phase to
\* (phase + min(intensity, max_intensity)) mod D.
StepAndPhaseAdvance ==
  last.op = "Update" =>
    /\ kind = "RandomBasis" => mem.step_ = (last.before.step_ + 1) % Dim
    /\ kind = "UnaryIntensity" =>
         mem.phase_ = (last.before.phase_
                       + MinIntensityMod(last.arg, mem.max_intensity_, Dim)) % Dim

\* C30: Reset restores the initial state of a streaming encoder: after any
\* Updates followed by Reset, later Updates give the Finalize output they give
\* on a freshly constructed encoder of the same configuration (counters zero,
\* step = 0, phase = 0, head = 0 and count = 0); between Resets step advances as
\* (step + 1) mod D and phase as (phase + min(intensity, max_intensity)) mod D.
C30_ResetRestoresInitialState ==
  pc = "encoder" => (ResetRestores /\ StepAndPhaseAdvance)

====
